---- MODULE Spec2Model ----
(***************************************************************************)
(* Alpha-Cat: the backtest orchestrator (BacktestThread), the result store *)
(* (backtest_results.csv, written by BacktestWindow and BatchSubmitWindow) *)
(* and the production submission workflow (SubmitThread).                  *)
(*                                                                         *)
(* Strings whose characters matter to the code (identifiers, templates,    *)
(* alpha ids) are sequences of one-character strings.  Progress fractions  *)
(* are held in hundredths (100 is the float 1.0).                          *)
(***************************************************************************)
EXTENDS Integers, Sequences, FiniteSets, TLC

VARIABLES
    \* ---- BacktestThread (src/gui/backtest_window.py) ----
    field_ids,          \* df['field_id'].tolist()
    alpha_template,     \* template_data['alpha_expression']
    max_concurrent,     \* self.max_concurrent
    is_running,         \* self._is_running
    current_idx,        \* local current_idx of run()
    active_requests,    \* self.active_requests: idx -> (expression, field_id)
    alpha_progress,     \* self.progress_manager.alpha_progress: idx -> fraction
    running_count,      \* local running_count of run()
    active_at_query,    \* history: len(self.active_requests) when running_count was read
    posts_in_cycle,     \* history: POSTs of send_simulation_request since running_count was read
    last_overall,       \* history: the overall progress line 261 emitted last
    fraction_fell,      \* history: a poll has reported a fraction below the one stored
    poll_queue,         \* the part of list(self.active_requests.items()) not yet polled
    completed_requests, \* local completed_requests of run()
    pc,                 \* position of run()
    emitted,            \* the signals emitted by the latest step of run()
    answered,           \* history: the answer the latest step of run() got to its request
    \* ---- result store (data/processed/backtest_results.csv) ----
    results_file,       \* the CSV file: [exists, has_submitted, rows]
    gui_log,            \* what the latest GUI handler appended to the status text
    \* ---- event loop of the GUI thread (slots of BacktestWindow and BatchSubmitWindow) ----
    event_queue,        \* finished_signal emissions posted to the GUI thread, not yet delivered
    gui_running,        \* the slots that have read the file and not yet written it
    serial_file,        \* history: the file if the slots had run one after the other
    posted,             \* number of emissions posted so far
    \* ---- batch submission of BatchSubmitWindow (src/gui/batch_submit_window.py) ----
    batch_alphas,       \* self.batch_alphas: unsubmitted['alpha_id'].tolist()
    current_batch_index, \* self.current_batch_index
    batch_log,          \* what the latest batch handler did and told the user
    \* ---- SubmitThread (src/gui/batch_submit_window.py) ----
    st_alpha_id,        \* self.alpha_id of the running SubmitThread, as str(self.alpha_id)
    st_alpha_type,      \* the Python type of self.alpha_id: "str" or "int"
    st_pc,              \* position of SubmitThread.run()
    attempts,           \* local attempts of SubmitThread.run()
    count,              \* local count of SubmitThread.run(), modulo 75
    polled,             \* SubmitThread.run() has issued a GET of its second round
    st_emitted,         \* the signals emitted by the latest step of SubmitThread.run()
    st_response,        \* history: the answer the latest request of SubmitThread.run() got
    signal_queue        \* finished_signal emissions the GUI thread has not handled yet

orch_vars == <<field_ids, alpha_template, max_concurrent, is_running, current_idx,
               active_requests, alpha_progress, running_count, active_at_query,
               posts_in_cycle, last_overall, fraction_fell, poll_queue, completed_requests,
               pc, emitted,
               answered>>
batch_vars == <<batch_alphas, current_batch_index, batch_log>>
loop_vars == <<event_queue, gui_running, serial_file, posted, batch_vars>>
store_vars == <<results_file, gui_log, loop_vars>>
submit_vars == <<st_alpha_id, st_alpha_type, st_pc, attempts, count, polled, st_emitted, st_response,
                 signal_queue>>
vars == <<orch_vars, store_vars, submit_vars>>

(***************************************************************************)
(* Bounds of the model.                                                    *)
(***************************************************************************)
MaxFields == 2      \* longest identifier list of a run
MaxRunning == 2     \* largest external in-flight count the service reports
MaxRows == 3        \* most rows the result file grows to
MaxTotal == 3       \* largest total_fields calculate_overall_progress is applied to
MaxPieces == 3      \* most pieces a template of the substitution check is made of

(***************************************************************************)
(* Text helpers.                                                           *)
(***************************************************************************)
UpperChars == <<"A","B","C","D","E","F","G","H","I","J","K","L","M",
                "N","O","P","Q","R","S","T","U","V","W","X","Y","Z">>
LowerChars == <<"a","b","c","d","e","f","g","h","i","j","k","l","m",
                "n","o","p","q","r","s","t","u","v","w","x","y","z">>

\* one character of str.lower()
LowerChar(c) ==
    IF \E i \in 1..Len(UpperChars) : UpperChars[i] = c
    THEN LowerChars[CHOOSE i \in 1..Len(UpperChars) : UpperChars[i] = c]
    ELSE c

\* str.lower()
Lower(s) == [i \in 1..Len(s) |-> LowerChar(s[i])]

\* sub in s
Contains(s, sub) ==
    \E i \in 1..(Len(s) - Len(sub) + 1) : SubSeq(s, i, i + Len(sub) - 1) = sub

VectorWord == <<"v","e","c","t","o","r">>
DataToken == <<"{","d","a","t","a","}">>

\* line 195 without .lower()
IsVectorFieldCaseSensitive(field_id) == Contains(field_id, VectorWord)

\* "vector" in field_id.lower()
IsVectorField(field_id) == Contains(Lower(field_id), VectorWord)

\* str.replace(old, new): every non-overlapping occurrence, left to right
RECURSIVE StrReplace(_, _, _)
StrReplace(s, old, new) ==
    IF Len(s) < Len(old) THEN s
    ELSE IF SubSeq(s, 1, Len(old)) = old
         THEN new \o StrReplace(SubSeq(s, Len(old) + 1, Len(s)), old, new)
         ELSE <<s[1]>> \o StrReplace(SubSeq(s, 2, Len(s)), old, new)

\* the position of the first "}" of s, or 0
FirstClose(s) ==
    IF \E j \in 1..Len(s) : s[j] = "}"
    THEN CHOOSE j \in 1..Len(s) : s[j] = "}" /\ \A k \in 1..(j - 1) : s[k] # "}"
    ELSE 0

\* re.sub(r'\{[^}]+\}', repl, s): a match starts at a "{" whose next "}" is
\* at least two characters further on; matches do not overlap
RECURSIVE ReSubBraces(_, _)
ReSubBraces(s, repl) ==
    IF Len(s) = 0 THEN s
    ELSE LET j == FirstClose(SubSeq(s, 2, Len(s))) + 1   \* index in s of the next "}"
         IN  IF s[1] = "{" /\ j >= 3
             THEN repl \o ReSubBraces(SubSeq(s, j + 1, Len(s)), repl)
             ELSE <<s[1]>> \o ReSubBraces(SubSeq(s, 2, Len(s)), repl)

\* lines 202-205 with the pattern of line 205 applied to every template
SubstituteAnyPlaceholder(template, field_id) == ReSubBraces(template, field_id)

\* the expression built from the template for one identifier
Substitute(template, field_id) ==
    IF Contains(template, DataToken)
    THEN StrReplace(template, DataToken, field_id)
    ELSE ReSubBraces(template, field_id)

(***************************************************************************)
(* Inputs of a run.                                                        *)
(***************************************************************************)
FieldPool == { <<"v","e","c","t","o">>,
               <<"x","V","e","c","T","O","R">> }

FieldLists == UNION { [1..n -> FieldPool] : n \in 0..MaxFields }

Templates == { <<"r","(","{","d","a","t","a","}",")">> }

ConcurrencyChoices == 1..5

\* float values of the poll payload's 'progress', in hundredths
FractionVals == {50, 100}

\* the poll payload's 'progress': a float, or a JSON integer, or absent (the
\* default of progress_data.get('progress', 0) is the integer 0)
ProgressPayloads ==
    { [isfloat |-> TRUE, val |-> v] : v \in FractionVals } \cup
    { [isfloat |-> FALSE, val |-> 0], [isfloat |-> FALSE, val |-> 100] }

\* answers of the transport to the POST of send_simulation_request
SubmitResponses == {"location", "no_location", "rate_limited", "http_error", "transport_error"}

\* answers of the transport to the GET of check_simulation_progress:
\*   kind     "ok": status code 200 and a JSON payload; "http_error": another
\*            status code (a 404 among them) with an ordinary body;
\*            "transport_error": session.get raised; "text_404": a failure
\*            whose text holds "404 Client Error"
\*   alpha    the payload names the result ('alpha')
\*   fetch    the answer to GET /alphas/{alpha_id} when it is asked
PollPayloads ==
    { [kind |-> "ok", progress |-> p, status |-> s, alpha |-> a, fetch |-> f] :
        p \in ProgressPayloads, s \in {"RUNNING", "ERROR", "COMPLETE"},
        a \in BOOLEAN, f \in {"ok", "http_error", "transport_error"} }

\* the payloads that differ in what run() reads of them: 'alpha' is read on
\* completion only, and the result is fetched only when 'alpha' is there
PollResponses ==
    { r \in PollPayloads :
        /\ (r.status = "ERROR" \/ (r.status = "RUNNING" /\ r.progress.val # 100))
              => ~r.alpha
        /\ ~r.alpha => r.fetch = "ok" } \cup
    { [kind |-> k, progress |-> [isfloat |-> FALSE, val |-> 0], status |-> "RUNNING",
       alpha |-> FALSE, fetch |-> "ok"] :
        k \in {"http_error", "transport_error", "text_404"} }

\* the answer a step of run() got: to the POST of index idx (post) or to the
\* GET of the progress of index idx (poll)
NoPoll == [kind |-> "none", progress |-> [isfloat |-> FALSE, val |-> 0], status |-> "",
           alpha |-> FALSE, fetch |-> "ok"]
Answer(op, idx, post, poll) == [op |-> op, idx |-> idx, post |-> post, poll |-> poll]
NoAnswer == Answer("none", 0, "none", NoPoll)

\* answers of the transport to the GET of get_running_simulations: the number
\* of RUNNING items of a 200 answer, or a failure
RunningResponses ==
    { [kind |-> "ok", n |-> k] : k \in 0..MaxRunning } \cup
    { [kind |-> k, n |-> 0] : k \in {"http_error", "transport_error"} }

Sig(sig, kind, idx) == [sig |-> sig, kind |-> kind, idx |-> idx]

(***************************************************************************)
(* ProgressManager and BacktestThread.calculate_overall_progress.          *)
(***************************************************************************)
\* ProgressManager.update_progress
update_progress(ap, idx, progress) ==
    [i \in (DOMAIN ap) \cup {idx} |-> IF i = idx THEN progress ELSE ap[i]]

\* remove_alpha leaving the entry in place
remove_alpha_keeps(ap, idx) == ap

\* ProgressManager.remove_alpha
remove_alpha(ap, idx) == [i \in (DOMAIN ap) \ {idx} |-> ap[i]]

\* lines 255-257 on the progress map: remove_alpha for each completed request
RECURSIVE RemoveCompleted(_, _)
RemoveCompleted(ap, completed) ==
    IF completed = <<>> THEN ap
    ELSE RemoveCompleted(remove_alpha(ap, Head(completed)), Tail(completed))

(***************************************************************************)
(* Python floats.  calculate_overall_progress computes in IEEE 754 binary64 *)
(* with round-to-nearest-even, and int() then truncates: the result        *)
(* depends on the rounding of every step.  A natural number of any size is *)
(* a sequence of limbs, least significant first, without leading zero      *)
(* limbs; a float that is not negative is m * 2^e with m of 53 bits, or 0. *)
(***************************************************************************)
Base == 32768          \* 2^15: the product of two limbs fits in 31 bits
LimbBits == 15
MantissaBits == 53     \* binary64

RECURSIVE Pow2(_)
Pow2(k) == IF k = 0 THEN 1 ELSE 2 * Pow2(k - 1)

RECURSIVE SmallBitLen(_)
SmallBitLen(n) == IF n = 0 THEN 0 ELSE 1 + SmallBitLen(n \div 2)

RECURSIVE BigTrim(_)
BigTrim(x) ==
    IF x = <<>> THEN x
    ELSE IF x[Len(x)] = 0 THEN BigTrim(SubSeq(x, 1, Len(x) - 1)) ELSE x

RECURSIVE BigOfInt(_)
BigOfInt(n) == IF n = 0 THEN <<>> ELSE <<n % Base>> \o BigOfInt(n \div Base)

RECURSIVE BigToInt(_)
BigToInt(x) == IF x = <<>> THEN 0 ELSE x[1] + Base * BigToInt(Tail(x))

\* x * k + carry for a limb k
RECURSIVE BigMulSmall(_, _, _)
BigMulSmall(x, k, carry) ==
    IF x = <<>> THEN BigOfInt(carry)
    ELSE LET p == x[1] * k + carry
         IN  <<p % Base>> \o BigMulSmall(Tail(x), k, p \div Base)

RECURSIVE BigAddCarry(_, _, _)
BigAddCarry(x, y, carry) ==
    IF x = <<>> /\ y = <<>> THEN BigOfInt(carry)
    ELSE LET a == IF x = <<>> THEN 0 ELSE x[1]
             b == IF y = <<>> THEN 0 ELSE y[1]
             t == a + b + carry
         IN  <<t % Base>> \o BigAddCarry(IF x = <<>> THEN x ELSE Tail(x),
                                         IF y = <<>> THEN y ELSE Tail(y), t \div Base)

BigAdd(x, y) == BigAddCarry(x, y, 0)

\* x * Base^n
BigShiftLimbs(x, n) == IF x = <<>> THEN x ELSE [i \in 1..n |-> 0] \o x

RECURSIVE BigMul(_, _)
BigMul(x, y) ==
    IF y = <<>> THEN <<>>
    ELSE BigAdd(BigMulSmall(x, y[1], 0), BigShiftLimbs(BigMul(x, Tail(y)), 1))

\* quotient and remainder of x by a limb d
RECURSIVE BigDivRem(_, _)
BigDivRem(x, d) ==
    IF x = <<>> THEN [q |-> <<>>, r |-> 0]
    ELSE LET hi == BigDivRem(Tail(x), d)
             cur == hi.r * Base + x[1]
         IN  [q |-> <<cur \div d>> \o hi.q, r |-> cur % d]

BigBitLen(x) ==
    IF x = <<>> THEN 0 ELSE (Len(x) - 1) * LimbBits + SmallBitLen(x[Len(x)])

\* bit i of x, bit 0 the least significant
BigBit(x, i) ==
    LET k == (i \div LimbBits) + 1
    IN  IF k > Len(x) THEN 0 ELSE (x[k] \div Pow2(i % LimbBits)) % 2

\* x * 2^s
BigShiftLeft(x, s) ==
    BigShiftLimbs(BigMulSmall(x, Pow2(s % LimbBits), 0), s \div LimbBits)

\* floor(x / 2^s)
BigShiftRight(x, s) ==
    LET n == s \div LimbBits
    IN  IF n >= Len(x) THEN <<>>
        ELSE BigTrim(BigDivRem(SubSeq(x, n + 1, Len(x)), Pow2(s % LimbBits)).q)

FloatZero == [m |-> <<>>, e |-> 0]

\* the float nearest to n * 2^e, ties to the even mantissa; with sticky, the
\* float nearest to a number strictly between n * 2^e and (n + 1) * 2^e
\* (n then has more than 53 bits)
RoundToFloat(n, e, sticky) ==
    IF n = <<>> THEN FloatZero
    ELSE LET len == BigBitLen(n)
         IN  IF len <= MantissaBits
             THEN [m |-> BigShiftLeft(n, MantissaBits - len), e |-> e - (MantissaBits - len)]
             ELSE LET s == len - MantissaBits
                      q == BigShiftRight(n, s)
                      half == BigBit(n, s - 1) = 1
                      rest == sticky \/ \E i \in 0..(s - 2) : BigBit(n, i) = 1
                      odd == BigBit(n, s) = 1
                      q1 == IF half /\ (rest \/ odd) THEN BigAdd(q, <<1>>) ELSE q
                  IN  IF BigBitLen(q1) > MantissaBits
                      THEN [m |-> BigShiftRight(q1, 1), e |-> e + s + 1]
                      ELSE [m |-> q1, e |-> e + s]

\* float(k) for an int k >= 0
FloatOfInt(k) == RoundToFloat(BigOfInt(k), 0, FALSE)

\* x * y
FloatMul(x, y) == RoundToFloat(BigMul(x.m, y.m), x.e + y.e, FALSE)

\* x / d for an int d with 0 < d < 2^15
FloatDiv(x, d) ==
    LET dr == BigDivRem(BigShiftLimbs(x.m, 2), d)
    IN  RoundToFloat(BigTrim(dr.q), x.e - 2 * LimbBits, dr.r # 0)

\* x + y
FloatAdd(x, y) ==
    IF x.m = <<>> THEN y
    ELSE IF y.m = <<>> THEN x
    ELSE LET e == IF x.e < y.e THEN x.e ELSE y.e
         IN  RoundToFloat(BigAdd(BigShiftLeft(x.m, x.e - e), BigShiftLeft(y.m, y.e - e)),
                          e, FALSE)

\* int(x)
IntOfFloat(x) ==
    IF x.e >= 0 THEN BigToInt(BigShiftLeft(x.m, x.e))
    ELSE BigToInt(BigShiftRight(x.m, -x.e))

\* the float of a fraction held in hundredths
FloatOfHundredths(v) == FloatDiv(FloatOfInt(v), 100)

\* sum(... for idx in self.active_requests.keys()), lines 72-73, added in
\* the order of the keys: the entry of the progress map, 0.0 for a job
\* without one
RECURSIVE SumOver(_, _)
SumOver(f, S) ==
    IF S = {} THEN FloatZero
    ELSE LET i == CHOOSE x \in S : \A y \in S : y <= x
         IN  FloatAdd(SumOver(f, S \ {i}), FloatOfHundredths(f[i]))

Returned(v) == [raised |-> "", value |-> v]
Raised(exc) == [raised |-> exc, value |-> 0]

\* lines 66-78 without the base progress of line 69: the contribution of the
\* active jobs alone
overall_of_active_only(current, total_fields, active, ap) ==
    IF total_fields = 0 THEN Raised("ZeroDivisionError")
    ELSE IF active # {}
    THEN Returned(IntOfFloat(
             FloatMul(FloatDiv(SumOver([i \in active |-> IF i \in DOMAIN ap THEN ap[i] ELSE 0],
                                       active),
                               Cardinality(active)),
                      FloatDiv(FloatOfInt(100), total_fields))))
    ELSE Returned(0)

\* calculate_overall_progress(current_idx, total_fields) on the active set
\* `active` and the progress map `ap` (lines 66-78): the int returned, or the
\* exception of the division of line 69
calculate_overall_progress(current, total_fields, active, ap) ==
    IF total_fields = 0 THEN Raised("ZeroDivisionError")
    ELSE LET base_progress == FloatMul(FloatDiv(FloatOfInt(current), total_fields),
                                       FloatOfInt(100))
         IN  IF active # {}
             THEN LET active_progress ==
                          SumOver([i \in active |-> IF i \in DOMAIN ap THEN ap[i] ELSE 0],
                                  active)
                      active_contribution ==
                          FloatMul(FloatDiv(active_progress, Cardinality(active)),
                                   FloatDiv(FloatOfInt(100), total_fields))
                  IN  Returned(IntOfFloat(FloatAdd(base_progress, active_contribution)))
             ELSE Returned(IntOfFloat(base_progress))

\* the values run() puts in the progress map: 0 at line 212, the float of
\* the payload at line 228
ProgressValues == {0} \cup FractionVals

\* the calls of line 260 a run can make, and what each returns
OverallCalls ==
    (0..MaxFields) \X (0..MaxFields) \X
    UNION { [S -> ProgressValues] : S \in SUBSET (0..(MaxFields - 1)) }

OverallTable ==
    { <<call, calculate_overall_progress(call[1], call[2], DOMAIN call[3], call[3])>> :
        call \in OverallCalls }

OverallOf(call) == (CHOOSE entry \in OverallTable : entry[1] = call)[2]

\* the keys of a dict whose keys were inserted in increasing order
RECURSIVE KeysInOrder(_)
KeysInOrder(S) ==
    IF S = {} THEN <<>>
    ELSE LET m == CHOOSE x \in S : \A y \in S : x <= y
         IN  <<m>> \o KeysInOrder(S \ {m})

Active == DOMAIN active_requests
total_fields == Len(field_ids)

(***************************************************************************)
(* BacktestThread.run, one action per step.                                *)
(***************************************************************************)
\* lines 150-178: the checks before the loop; a failure is raised to the
\* handler of line 269
Setup ==
    /\ pc = "start"
    /\ \E ok \in BOOLEAN :
         IF ok
         THEN /\ pc' = "loop"
              /\ emitted' = <<Sig("progress_signal", "begin", total_fields)>>
         ELSE /\ pc' = "except"
              /\ emitted' = <<>>
    /\ UNCHANGED <<active_at_query, posts_in_cycle, last_overall, fraction_fell>>
    /\ answered' = NoAnswer
    /\ UNCHANGED <<store_vars, submit_vars>>
    /\ UNCHANGED <<field_ids, alpha_template, max_concurrent, is_running, current_idx,
                   active_requests, alpha_progress, running_count, poll_queue,
                   completed_requests>>

\* line 270: the handler reads the flag
ExceptCheck ==
    /\ pc = "except"
    /\ pc' = IF is_running THEN "emit_error" ELSE "done"
    /\ emitted' = <<>>
    /\ UNCHANGED <<active_at_query, posts_in_cycle, last_overall, fraction_fell>>
    /\ answered' = NoAnswer
    /\ UNCHANGED <<store_vars, submit_vars>>
    /\ UNCHANGED <<field_ids, alpha_template, max_concurrent, is_running, current_idx,
                   active_requests, alpha_progress, running_count, poll_queue,
                   completed_requests>>

\* line 271
EmitError ==
    /\ pc = "emit_error"
    /\ pc' = "done"
    /\ emitted' = <<Sig("error_signal", "error", 0)>>
    /\ UNCHANGED <<active_at_query, posts_in_cycle, last_overall, fraction_fell>>
    /\ answered' = NoAnswer
    /\ UNCHANGED <<store_vars, submit_vars>>
    /\ UNCHANGED <<field_ids, alpha_template, max_concurrent, is_running, current_idx,
                   active_requests, alpha_progress, running_count, poll_queue,
                   completed_requests>>

\* line 180 without the cancellation flag
LoopConditionNoFlag ==
    current_idx < Len(field_ids) \/ DOMAIN active_requests # {}

\* line 180: the loop condition
LoopCondition ==
    (current_idx < total_fields \/ Active # {}) /\ is_running

LoopCheck ==
    /\ pc = "loop"
    /\ pc' = IF LoopCondition THEN "get_running" ELSE "exit"
    /\ emitted' = <<>>
    /\ UNCHANGED <<active_at_query, posts_in_cycle, last_overall, fraction_fell>>
    /\ answered' = NoAnswer
    /\ UNCHANGED <<store_vars, submit_vars>>
    /\ UNCHANGED <<field_ids, alpha_template, max_concurrent, is_running, current_idx,
                   active_requests, alpha_progress, running_count, poll_queue,
                   completed_requests>>

\* get_running_simulations (lines 80-92)
get_running_simulations(resp) == IF resp.kind = "ok" THEN resp.n ELSE 0

\* line 185: the external count alone decides the 30 s wait
MustWait(running, maxc) == running >= maxc

\* lines 182-188
GetRunning ==
    /\ pc = "get_running"
    /\ \E resp \in RunningResponses :
         LET n == get_running_simulations(resp)
             said == IF resp.kind = "http_error" THEN <<>>
                     ELSE IF resp.kind = "transport_error"
                          THEN <<Sig("progress_signal", "running_failed", 0)>>
                          ELSE <<Sig("progress_signal", "running", n)>>
         IN  /\ running_count' = n
             /\ IF MustWait(n, max_concurrent)
                THEN /\ emitted' = said \o <<Sig("progress_signal", "wait", 0)>>
                     /\ pc' = "loop"
                ELSE /\ emitted' = said
                     /\ pc' = "fill"
    /\ active_at_query' = Cardinality(Active)
    /\ posts_in_cycle' = 0
    /\ UNCHANGED <<last_overall, fraction_fell>>
    /\ answered' = NoAnswer
    /\ UNCHANGED <<store_vars, submit_vars>>
    /\ UNCHANGED <<field_ids, alpha_template, max_concurrent, is_running, current_idx,
                   active_requests, alpha_progress, poll_queue, completed_requests>>

\* line 191 with <= for <
FillConditionOffByOne(nactive, running, maxc, idx, total, run) ==
    nactive + running <= maxc /\ idx < total /\ run

\* line 191 bounding the larger of the two counts, not their sum
FillConditionLarger(nactive, running, maxc, idx, total, run) ==
    (IF nactive > running THEN nactive ELSE running) < maxc /\ idx < total /\ run

\* line 191: the condition of the filling loop
FillCondition(nactive, running, maxc, idx, total, run) ==
    nactive + running < maxc /\ idx < total /\ run

\* lines 191-205: the condition, the vector rule and the substitution; a
\* field that is not skipped is handed to send_simulation_request next
FillCheck ==
    /\ pc = "fill"
    /\ IF FillCondition(Cardinality(Active), running_count, max_concurrent,
                        current_idx, total_fields, is_running)
       THEN IF IsVectorField(field_ids[current_idx + 1])
            THEN /\ emitted' = <<Sig("progress_signal", "skip", current_idx)>>
                 /\ current_idx' = current_idx + 1
                 /\ pc' = "fill"
                 /\ UNCHANGED <<poll_queue, completed_requests>>
            ELSE /\ emitted' = <<>>
                 /\ pc' = "submit"
                 /\ UNCHANGED <<current_idx, poll_queue, completed_requests>>
       ELSE /\ emitted' = <<>>
            /\ pc' = "poll"
            /\ poll_queue' = KeysInOrder(Active)
            /\ completed_requests' = <<>>
            /\ UNCHANGED current_idx
    /\ UNCHANGED <<active_at_query, posts_in_cycle, last_overall, fraction_fell>>
    /\ answered' = NoAnswer
    /\ UNCHANGED <<store_vars, submit_vars>>
    /\ UNCHANGED <<field_ids, alpha_template, max_concurrent, is_running,
                   active_requests, alpha_progress, running_count>>

\* send_simulation_request (lines 119-130) as seen by run(): the poll locator,
\* None, or the exception raised
send_simulation_request(resp) ==
    CASE resp = "location"        -> "url"
      [] resp = "no_location"     -> "None"
      [] resp = "rate_limited"    -> "raise_rate_limit"
      [] resp = "http_error"      -> "raise_failed"
      [] resp = "transport_error" -> "raise_transport"

\* line 217 moved into the try block: a request that failed is made again
IndexAfterSubmitRetrying(idx, outcome) ==
    IF outcome = "raise_failed" THEN idx ELSE idx + 1

\* line 217: the index after a submission attempt, whatever its outcome
IndexAfterSubmit(idx, outcome) == idx + 1

\* lines 207-217
Submit ==
    /\ pc = "submit"
    /\ \E resp \in SubmitResponses :
         LET outcome == send_simulation_request(resp)
             field_id == field_ids[current_idx + 1]
         IN  /\ IF outcome = "url"
                THEN /\ active_requests' =
                          [i \in Active \cup {current_idx} |->
                              IF i = current_idx
                              THEN [alpha_expression |-> Substitute(alpha_template, field_id),
                                    field_id |-> field_id]
                              ELSE active_requests[i]]
                     /\ alpha_progress' = update_progress(alpha_progress, current_idx, 0)
                     /\ emitted' = <<Sig("progress_signal", "started", current_idx)>>
                ELSE /\ UNCHANGED <<active_requests, alpha_progress>>
                     /\ emitted' =
                          IF outcome = "None" THEN <<>>
                          ELSE <<Sig("progress_signal", outcome, current_idx)>>
             /\ current_idx' = IndexAfterSubmit(current_idx, outcome)
             /\ answered' = Answer("post", current_idx, resp, NoPoll)
    /\ pc' = "fill"
    /\ posts_in_cycle' = posts_in_cycle + 1
    /\ UNCHANGED <<active_at_query, last_overall, fraction_fell>>
    /\ UNCHANGED <<store_vars, submit_vars>>
    /\ UNCHANGED <<field_ids, alpha_template, max_concurrent, is_running,
                   running_count, poll_queue, completed_requests>>

\* line 251 without its test: every failure of a poll retires the job
RetiresOnAnyFailure(kind) == TRUE

\* line 251: the failures that retire the job
RetiresOnFailure(kind) == kind = "text_404"

\* line 237 without its test of the progress
IsCompleteByStatusOnly(resp) == resp.status = "COMPLETE"

\* line 237
IsComplete(resp) == resp.status = "COMPLETE" \/ resp.progress.val = 100

\* lines 222-252 for one entry of the active set: <<signals, retired>>
PollOutcome(idx, resp) ==
    LET said_status == <<Sig("progress_signal", "status", idx)>>
        said_progress == IF resp.progress.isfloat
                         THEN <<Sig("progress_signal", "progress", idx)>>
                         ELSE <<>>
        failed == <<Sig("progress_signal", "poll_failed", idx)>>
    IN  IF resp.kind # "ok"
        THEN <<failed, RetiresOnFailure(resp.kind)>>
        ELSE IF resp.status = "ERROR"
        THEN <<said_status \o said_progress \o <<Sig("progress_signal", "job_error", idx)>>, TRUE>>
        ELSE IF IsComplete(resp)
        THEN IF resp.alpha
             THEN CASE resp.fetch = "ok" ->
                         <<said_status \o said_progress \o
                           <<Sig("finished_signal", "result", idx),
                             Sig("progress_signal", "job_complete", idx)>>, TRUE>>
                    [] resp.fetch = "http_error" ->
                         <<said_status \o said_progress, TRUE>>
                    [] resp.fetch = "transport_error" ->
                         <<said_status \o said_progress \o failed, FALSE>>
             ELSE <<said_status \o said_progress, TRUE>>
        ELSE <<said_status \o said_progress, FALSE>>

\* lines 221-252: one iteration of the polling loop
Poll ==
    /\ pc = "poll"
    /\ poll_queue # <<>>
    /\ \E resp \in PollResponses :
         LET idx == Head(poll_queue)
             out == PollOutcome(idx, resp)
         IN  /\ emitted' = out[1]
             /\ alpha_progress' =
                    IF resp.kind = "ok" /\ resp.progress.isfloat
                    THEN update_progress(alpha_progress, idx, resp.progress.val)
                    ELSE alpha_progress
             /\ completed_requests' =
                    IF out[2] THEN Append(completed_requests, idx) ELSE completed_requests
             /\ answered' = Answer("poll", idx, "none", resp)
             /\ fraction_fell' = (fraction_fell \/ alpha_progress'[idx] < alpha_progress[idx])
    /\ poll_queue' = Tail(poll_queue)
    /\ UNCHANGED <<active_at_query, posts_in_cycle, last_overall>>
    /\ UNCHANGED <<store_vars, submit_vars>>
    /\ UNCHANGED <<field_ids, alpha_template, max_concurrent, is_running, current_idx,
                   active_requests, running_count, pc>>

Range(q) == { q[i] : i \in 1..Len(q) }

\* lines 254-264: retire the completed requests, emit the overall progress, sleep
Retire ==
    /\ pc = "poll"
    /\ poll_queue = <<>>
    /\ LET left == Active \ Range(completed_requests)
           kept == RemoveCompleted(alpha_progress, completed_requests)
       IN  /\ active_requests' = [i \in left |-> active_requests[i]]
           /\ alpha_progress' = kept
           /\ \E overall \in {OverallOf(<<current_idx - Cardinality(left), total_fields,
                                          [i \in left |-> IF i \in DOMAIN kept
                                                          THEN kept[i] ELSE 0]>>).value} :
                 /\ emitted' = <<[sig |-> "progress_update", kind |-> "overall",
                                  idx |-> overall]>>
                 /\ last_overall' = overall
    /\ UNCHANGED fraction_fell
    /\ completed_requests' = <<>>
    /\ pc' = "loop"
    /\ active_at_query' = 0
    /\ posts_in_cycle' = 0
    /\ answered' = NoAnswer
    /\ UNCHANGED <<store_vars, submit_vars>>
    /\ UNCHANGED <<field_ids, alpha_template, max_concurrent, is_running, current_idx,
                   running_count, poll_queue>>

\* line 266: the flag is read once the loop has ended
Exit ==
    /\ pc = "exit"
    /\ pc' = IF is_running THEN "say_done" ELSE "done"
    /\ emitted' = <<>>
    /\ UNCHANGED <<active_at_query, posts_in_cycle, last_overall, fraction_fell>>
    /\ answered' = NoAnswer
    /\ UNCHANGED <<store_vars, submit_vars>>
    /\ UNCHANGED <<field_ids, alpha_template, max_concurrent, is_running, current_idx,
                   active_requests, alpha_progress, running_count, poll_queue,
                   completed_requests>>

\* line 267
SayDone ==
    /\ pc = "say_done"
    /\ pc' = "done"
    /\ emitted' = <<Sig("progress_signal", "all_done", 0)>>
    /\ UNCHANGED <<active_at_query, posts_in_cycle, last_overall, fraction_fell>>
    /\ answered' = NoAnswer
    /\ UNCHANGED <<store_vars, submit_vars>>
    /\ UNCHANGED <<field_ids, alpha_template, max_concurrent, is_running, current_idx,
                   active_requests, alpha_progress, running_count, poll_queue,
                   completed_requests>>

\* BacktestThread.stop (lines 273-275), called by BacktestWindow.stop_backtest
\* (lines 527-530) from the GUI thread while the thread is running
stop ==
    /\ pc # "done"
    /\ is_running
    /\ is_running' = FALSE
    /\ UNCHANGED <<active_at_query, posts_in_cycle, last_overall, fraction_fell>>
    /\ UNCHANGED answered
    /\ UNCHANGED <<store_vars, submit_vars>>
    /\ UNCHANGED <<field_ids, alpha_template, max_concurrent, current_idx,
                   active_requests, alpha_progress, running_count, poll_queue,
                   completed_requests, pc, emitted>>

RunStep ==
    \/ Setup \/ ExceptCheck \/ EmitError \/ LoopCheck \/ GetRunning \/ FillCheck
    \/ Submit \/ Poll \/ Retire \/ Exit \/ SayDone

(***************************************************************************)
(* The result store: data/processed/backtest_results.csv, read and         *)
(* rewritten whole through pandas.                                         *)
(*                                                                         *)
(* The file holds text.  A row of the file is                              *)
(*   [alpha_id, creation_time, formula, checks, submitted]                 *)
(* with alpha_id the characters of the cell, checks the five check-value   *)
(* cells and submitted TRUE for the cell "True" and FALSE for an empty or  *)
(* missing cell.  In a DataFrame the alpha_id cells are typed: read_csv    *)
(* makes the column int64 when every cell is an integer literal and leaves *)
(* it text otherwise.  Formulas and creation times hold letters or         *)
(* punctuation, so read_csv leaves them text; the alpha ids of the model   *)
(* are letters and digits without leading zeros.                           *)
(***************************************************************************)
CheckNames == <<"LOW_SHARPE", "LOW_FITNESS", "LOW_TURNOVER",
                "HIGH_TURNOVER", "LOW_SUB_UNIVERSE_SHARPE">>
CheckNameSet == Range(CheckNames)

Digits == <<"0","1","2","3","4","5","6","7","8","9">>
IsDigit(c) == \E d \in 1..10 : Digits[d] = c
DigitValue(c) == (CHOOSE d \in 1..10 : Digits[d] = c) - 1

\* the text is an integer literal
IsIntText(t) == Len(t) > 0 /\ \A i \in 1..Len(t) : IsDigit(t[i])

RECURSIVE TextToInt(_)
TextToInt(t) ==
    IF Len(t) = 0 THEN 0
    ELSE 10 * TextToInt(SubSeq(t, 1, Len(t) - 1)) + DigitValue(t[Len(t)])

RECURSIVE IntToText(_)
IntToText(n) ==
    IF n < 10 THEN <<Digits[n + 1]>>
    ELSE IntToText(n \div 10) \o <<Digits[(n % 10) + 1]>>

PyStr(t) == [t |-> "str", s |-> t, n |-> 0]
PyInt(k) == [t |-> "int", s |-> <<>>, n |-> k]

\* the cell to_csv writes for a value
CellText(v) == IF v.t = "int" THEN IntToText(v.n) ELSE v.s

\* the dtype read_csv infers for the alpha_id column
IdColumnIsInt(rows) ==
    Len(rows) > 0 /\ \A i \in 1..Len(rows) : IsIntText(rows[i].alpha_id)

\* pd.read_csv(results_file): the rows of the DataFrame
read_csv(file) ==
    LET asint == IdColumnIsInt(file.rows)
    IN  [i \in 1..Len(file.rows) |->
            [file.rows[i] EXCEPT !.alpha_id =
                IF asint THEN PyInt(TextToInt(file.rows[i].alpha_id))
                ELSE PyStr(file.rows[i].alpha_id)]]

\* df.to_csv(results_file, index=False): the rows of the file
to_csv(df) == [i \in 1..Len(df) |-> [df[i] EXCEPT !.alpha_id = CellText(df[i].alpha_id)]]

\* lines 550-556: the values of the listed checks, a later check of the same
\* name replacing an earlier one
RECURSIVE check_values(_)
check_values(checks) ==
    IF checks = <<>> THEN [n \in {} |-> 0]
    ELSE LET before == check_values(SubSeq(checks, 1, Len(checks) - 1))
             c == checks[Len(checks)]
         IN  IF c.name \in CheckNameSet
             THEN [n \in (DOMAIN before) \cup {c.name} |->
                      IF n = c.name THEN c.value ELSE before[n]]
             ELSE before

\* lines 559-568
result_data(result) ==
    LET cv == check_values(result.checks)
    IN  [alpha_id |-> PyStr(result.id),
         creation_time |-> result.dateCreated,
         formula |-> result.code,
         checks |-> [n \in CheckNameSet |-> IF n \in DOMAIN cv THEN cv[n] ELSE 0],
         submitted |-> FALSE]

\* lines 582-586 made to fail on any check that is not PASS, listed or not
all_passed_every_check(checks) ==
    \A i \in 1..Len(checks) : checks[i].result = "PASS"

\* lines 582-586
all_passed(checks) ==
    \A i \in 1..Len(checks) :
        ~(checks[i].name \in DOMAIN check_values(checks) /\ checks[i].result # "PASS")

\* the key of drop_duplicates(subset=['alpha_id', 'formula'])
SameKey(a, b) == a.alpha_id = b.alpha_id /\ a.formula = b.formula

\* boolean indexing df[mask]: the rows whose index is in keep, in their order
RECURSIVE SelectFrom(_, _, _)
SelectFrom(df, keep, i) ==
    IF i > Len(df) THEN <<>>
    ELSE (IF i \in keep THEN <<df[i]>> ELSE <<>>) \o SelectFrom(df, keep, i + 1)

SelectIdx(df, keep) == SelectFrom(df, keep, 1)

\* df.drop_duplicates(subset=['alpha_id', 'formula'], keep='last')
drop_duplicates(df) ==
    LET keep == {i \in 1..Len(df) : ~\E j \in (i + 1)..Len(df) : SameKey(df[i], df[j])}
    IN  SelectIdx(df, keep)

EmptyFile == [exists |-> FALSE, has_submitted |-> FALSE, rows |-> <<>>]

\* lines 570-594: the file after handle_backtest_finished(result)
persist(file, result) ==
    LET df == IF file.exists THEN read_csv(file) ELSE <<>>
    IN  IF all_passed(result.checks)
        THEN [exists |-> TRUE,
              has_submitted |-> file.exists /\ file.has_submitted,
              rows |-> to_csv(drop_duplicates(Append(df, result_data(result))))]
        ELSE file

\* lines 317-319 with the two groups concatenated the other way round
reorder_submitted_first(df) ==
    LET unsub == {i \in 1..Len(df) : ~df[i].submitted}
        sub == {i \in 1..Len(df) : df[i].submitted}
    IN  SelectIdx(df, sub) \o SelectIdx(df, unsub)

\* lines 317-319: the unsubmitted rows, then the submitted ones
reorder(df) ==
    LET unsub == {i \in 1..Len(df) : ~df[i].submitted}
        sub == {i \in 1..Len(df) : df[i].submitted}
    IN  SelectIdx(df, unsub) \o SelectIdx(df, sub)

\* lines 313-322: the file after mark_as_submitted(alpha_id); alpha_id is the
\* str the finished signal carries.  A missing file makes read_csv raise,
\* and the handler of line 327 only reports it
mark(file, alpha_id) ==
    IF ~file.exists THEN file
    ELSE LET df == read_csv(file)
             marked == [i \in 1..Len(df) |->
                           [df[i] EXCEPT !.submitted =
                               df[i].submitted \/ df[i].alpha_id = PyStr(alpha_id)]]
         IN  [exists |-> TRUE, has_submitted |-> TRUE, rows |-> to_csv(reorder(marked))]

(***************************************************************************)
(* Inputs of the store and of the submission workflow.                     *)
(***************************************************************************)
AlphaIds == { <<"a","1">>, <<"1","7">> }
Formulas == {"f1", "f2"}

Check(name, result, value) == [name |-> name, result |-> result, value |-> value]

\* check lists of a fetched result; the service reports one check per name
CheckLists ==
    { <<>>,
      <<Check("LOW_SHARPE", "PASS", 1), Check("LOW_FITNESS", "PASS", 2)>>,
      <<Check("LOW_SHARPE", "PASS", 1), Check("LOW_FITNESS", "FAIL", 2)>>,
      <<Check("LOW_SHARPE", "PASS", 2), Check("CONCENTRATED_WEIGHT", "FAIL", 1)>>,
      <<Check("HIGH_TURNOVER", "WARNING", 1)>> }

Results ==
    { [id |-> a, dateCreated |-> "t1", code |-> f, checks |-> c] :
        a \in AlphaIds, f \in Formulas, c \in CheckLists }

NoResult == [id |-> <<>>, dateCreated |-> "", code |-> "", checks |-> <<>>]

GuiLog(op, saved, result, alpha_id) ==
    [op |-> op, saved |-> saved, result |-> result, alpha_id |-> alpha_id]

(***************************************************************************)
(* GUI-thread handlers of the store.                                       *)
(***************************************************************************)
\* BacktestWindow.handle_backtest_finished (lines 542-601)
handle_backtest_finished(result) ==
    /\ results_file' = persist(results_file, result)
    /\ gui_log' = GuiLog("persist", all_passed(result.checks), result, <<>>)

\* BatchSubmitWindow.mark_as_submitted (lines 310-328)
mark_as_submitted(alpha_id) ==
    /\ results_file' = mark(results_file, alpha_id)
    /\ gui_log' = GuiLog("mark", results_file.exists, NoResult, alpha_id)

\* a result payload reaches BacktestWindow
HandleBacktestFinished ==
    /\ Len(results_file.rows) < MaxRows
    /\ \E result \in Results : handle_backtest_finished(result)
    /\ UNCHANGED <<orch_vars, submit_vars, loop_vars>>

\* a successful submission reaches BatchSubmitWindow
MarkAsSubmitted ==
    /\ \E alpha_id \in AlphaIds : mark_as_submitted(alpha_id)
    /\ UNCHANGED <<orch_vars, submit_vars, loop_vars>>

(***************************************************************************)
(* SubmitThread.run and its callers.                                       *)
(***************************************************************************)
MaxAttempts == 5
HeartbeatEvery == 75

NoResponse == [kind |-> "none", retry |-> PyInt(0)]

ThreadIdle == st_pc \in {"idle", "returned", "crashed"}

\* BatchSubmitWindow.submit_single (lines 242-253)
submit_single ==
    /\ ThreadIdle
    /\ signal_queue = <<>>
    /\ \E alpha_id \in AlphaIds :
         st_alpha_id' = alpha_id
    /\ st_alpha_type' = "str"
    /\ st_pc' = "stage1"
    /\ attempts' = 0
    /\ count' = 0
    /\ polled' = FALSE
    /\ st_emitted' = <<>>
    /\ st_response' = NoResponse
    /\ UNCHANGED <<signal_queue, orch_vars, store_vars>>

Finished(success) == [alpha_id |-> st_alpha_id, success |-> success]

\* self.finished_signal.emit(self.alpha_id, success) and the return after it
\* (lines 41-42, 45-46, 65-66, 69-70): <<next position, emissions>>.
\* finished_signal is pyqtSignal(str, bool) (line 14); with an int for
\* alpha_id emit raises TypeError and run() ends on the exception
EmitFinished(success) ==
    IF st_alpha_type = "str"
    THEN <<"returned", <<Finished(success)>>>>
    ELSE <<"crashed", <<>>>>

\* answers to the POST of lines 35-46
Stage1Responses == {"201", "400", "403", "other", "transport_error"}

\* lines 36-46: <<next position, signals said, finished_signal emitted>>
Stage1Outcome(resp) ==
    CASE resp = "201" -> <<"stage2", <<"accepted">>, <<>>>>
      [] resp = "400" ->
            <<EmitFinished(FALSE)[1], <<"already_submitted">>, EmitFinished(FALSE)[2]>>
      [] resp = "403" ->
            <<EmitFinished(FALSE)[1], <<"rejected">>, EmitFinished(FALSE)[2]>>
      [] resp = "other" -> <<"stage1", <<>>, <<>>>>
      [] resp = "transport_error" -> <<"crashed", <<>>, <<>>>>

\* lines 31-48: one attempt of the first round
Stage1Attempt ==
    /\ st_pc = "stage1"
    /\ attempts < MaxAttempts
    /\ attempts' = attempts + 1
    /\ \E resp \in Stage1Responses :
         LET out == Stage1Outcome(resp)
         IN  /\ st_pc' = out[1]
             /\ st_emitted' = <<"trying">> \o out[2]
             /\ st_response' = [kind |-> resp, retry |-> PyInt(0)]
             /\ signal_queue' = signal_queue \o out[3]
    /\ UNCHANGED <<st_alpha_id, st_alpha_type, count, polled, orch_vars, store_vars>>

\* a first round that gives up after its last attempt
AfterExhaustionGivesUp == "returned"

\* lines 49-51: after the loop of the first round comes the second round
AfterExhaustion == "stage2"

\* line 31 with attempts = 5: the loop ends and run() goes on to line 51
Stage1Exhausted ==
    /\ st_pc = "stage1"
    /\ attempts >= MaxAttempts
    /\ st_pc' = AfterExhaustion
    /\ st_emitted' = <<>>
    /\ UNCHANGED <<st_alpha_id, st_alpha_type, attempts, count, polled, st_response,
                   signal_queue, orch_vars, store_vars>>

\* answers to the GET of line 54: the status code and what
\* res.headers.get('Retry-After', 0) gives, the int 0 when the header is
\* absent and the text of the header otherwise
Stage2Responses ==
    { [kind |-> "200", retry |-> r] : r \in {PyInt(0), PyStr(<<"0">>), PyStr(<<"2">>)} } \cup
    { [kind |-> k, retry |-> PyInt(0)] : k \in {"other", "transport_error"} }

\* line 57, if retry: an int is true when it is not 0, a str when it is not empty
RetryTruthy(retry) == IF retry.t = "int" THEN retry.n # 0 ELSE retry.s # <<>>

\* lines 53-70: one iteration of the second round
Stage2Poll ==
    /\ st_pc = "stage2"
    /\ polled' = TRUE
    /\ \E resp \in Stage2Responses :
         /\ st_response' = resp
         /\ CASE resp.kind = "transport_error" ->
                /\ st_pc' = "crashed"
                /\ st_emitted' = <<>>
                /\ UNCHANGED <<count, signal_queue>>
           [] resp.kind = "other" ->
                /\ st_pc' = EmitFinished(FALSE)[1]
                /\ st_emitted' = <<"failed">>
                /\ signal_queue' = signal_queue \o EmitFinished(FALSE)[2]
                /\ UNCHANGED count
           [] resp.kind = "200" /\ RetryTruthy(resp.retry) ->
                /\ st_pc' = "stage2"
                /\ count' = (count + 1) % HeartbeatEvery
                /\ st_emitted' = IF count' = 0 THEN <<"waiting">> ELSE <<>>
                /\ UNCHANGED signal_queue
           [] resp.kind = "200" /\ ~RetryTruthy(resp.retry) ->
                /\ st_pc' = EmitFinished(TRUE)[1]
                /\ st_emitted' = <<"success">>
                /\ signal_queue' = signal_queue \o EmitFinished(TRUE)[2]
                /\ UNCHANGED count
    /\ UNCHANGED <<st_alpha_id, st_alpha_type, attempts, orch_vars, store_vars>>

\* line 298 without the test of success
MarksOnFinishAlways(success) == TRUE

\* line 298: whether the finished signal leads to mark_as_submitted
MarksOnFinish(success) == success

\* BatchSubmitWindow.on_submit_finished (lines 296-299), run by the GUI thread
on_submit_finished ==
    /\ signal_queue # <<>>
    /\ LET sig == Head(signal_queue)
       IN  IF MarksOnFinish(sig.success)
           THEN mark_as_submitted(sig.alpha_id)
           ELSE UNCHANGED <<results_file, gui_log>>
    /\ signal_queue' = Tail(signal_queue)
    /\ UNCHANGED <<st_alpha_id, st_alpha_type, st_pc, attempts, count, polled, st_emitted,
                   st_response, orch_vars, loop_vars>>

(***************************************************************************)
(* Batch submission (BatchSubmitWindow, lines 255-308).                    *)
(***************************************************************************)
\* the handler that ran last and what it came to
BatchLog(op, said) == [op |-> op, said |-> said]

\* the thread of lines 287-290 is started on alpha_id, a value of tolist()
StartSubmitThread(alpha_id) ==
    /\ st_alpha_id' = CellText(alpha_id)
    /\ st_alpha_type' = alpha_id.t
    /\ st_pc' = "stage1"
    /\ attempts' = 0
    /\ count' = 0
    /\ polled' = FALSE
    /\ st_emitted' = <<>>
    /\ st_response' = NoResponse

\* BatchSubmitWindow.submit_next_batch (lines 279-290) on the index and the
\* list the caller has just set; op is the handler that calls it
submit_next_batch(op, index, alphas) ==
    IF index >= Len(alphas)
    THEN /\ batch_log' = BatchLog(op, "complete")
         /\ UNCHANGED <<st_alpha_id, st_alpha_type, st_pc, attempts, count, polled,
                        st_emitted, st_response>>
    ELSE /\ batch_log' = BatchLog(op, "started")
         /\ StartSubmitThread(alphas[index + 1])

\* line 262: the rows of df[df['submitted'].fillna(False) == False]
Unsubmitted(df) == SelectIdx(df, {i \in 1..Len(df) : ~df[i].submitted})

\* line 273: unsubmitted['alpha_id'].tolist()
IdList(df) == [i \in 1..Len(df) |-> df[i].alpha_id]

\* line 258 raises when the file is missing and line 262 when the file has
\* no 'submitted' column; line 276 catches both
SubmitBatchRaises(file) == ~file.exists \/ ~file.has_submitted

\* BatchSubmitWindow.submit_batch (lines 255-277), the user clicking the
\* batch button while no SubmitThread runs
submit_batch ==
    /\ ThreadIdle
    /\ signal_queue = <<>>
    /\ IF SubmitBatchRaises(results_file)
       THEN /\ batch_log' = BatchLog("submit_batch", "error")
            /\ UNCHANGED <<batch_alphas, current_batch_index, submit_vars>>
       ELSE LET unsubmitted == Unsubmitted(read_csv(results_file))
            IN  IF Len(unsubmitted) = 0
                THEN /\ batch_log' = BatchLog("submit_batch", "nothing")
                     /\ UNCHANGED <<batch_alphas, current_batch_index, submit_vars>>
                ELSE /\ current_batch_index' = 0
                     /\ batch_alphas' = IdList(unsubmitted)
                     /\ submit_next_batch("submit_batch", 0, IdList(unsubmitted))
                     /\ UNCHANGED signal_queue
    /\ UNCHANGED <<results_file, gui_log, event_queue, gui_running, serial_file, posted,
                   orch_vars>>

\* BatchSubmitWindow.on_batch_submit_finished (lines 301-308), run by the GUI
\* thread
on_batch_submit_finished ==
    /\ signal_queue # <<>>
    /\ LET sig == Head(signal_queue)
       IN  IF sig.success
           THEN mark_as_submitted(sig.alpha_id)
           ELSE UNCHANGED <<results_file, gui_log>>
    /\ signal_queue' = Tail(signal_queue)
    /\ current_batch_index' = current_batch_index + 1
    /\ submit_next_batch("on_batch_submit_finished", current_batch_index + 1, batch_alphas)
    /\ UNCHANGED <<batch_alphas, event_queue, gui_running, serial_file, posted, orch_vars>>

(***************************************************************************)
(* Initial states and specifications.                                      *)
(***************************************************************************)
EmptyMap == [i \in {} |-> 0]

InitOrchIdle ==
    /\ field_ids = <<>>
    /\ alpha_template = <<>>
    /\ max_concurrent = 3
    /\ is_running = TRUE
    /\ current_idx = 0
    /\ active_requests = EmptyMap
    /\ alpha_progress = EmptyMap
    /\ running_count = 0
    /\ active_at_query = 0
    /\ posts_in_cycle = 0
    /\ last_overall = 0
    /\ fraction_fell = FALSE
    /\ poll_queue = <<>>
    /\ completed_requests = <<>>
    /\ pc = "done"
    /\ emitted = <<>>
    /\ answered = NoAnswer

\* BacktestWindow.start_backtest (lines 510-525) and BacktestThread.__init__
InitOrch ==
    /\ field_ids \in FieldLists
    /\ alpha_template \in Templates
    /\ max_concurrent \in ConcurrencyChoices
    /\ is_running = TRUE
    /\ current_idx = 0
    /\ active_requests = EmptyMap
    /\ alpha_progress = EmptyMap
    /\ running_count = 0
    /\ active_at_query = 0
    /\ posts_in_cycle = 0
    /\ last_overall = 0
    /\ fraction_fell = FALSE
    /\ poll_queue = <<>>
    /\ completed_requests = <<>>
    /\ pc = "start"
    /\ emitted = <<>>
    /\ answered = NoAnswer

InitLoop ==
    /\ event_queue = <<>>
    /\ gui_running = <<>>
    /\ serial_file = EmptyFile
    /\ posted = 0
    /\ batch_alphas = <<>>
    /\ current_batch_index = 0
    /\ batch_log = BatchLog("none", "")

InitStore ==
    /\ results_file = EmptyFile
    /\ gui_log = GuiLog("none", FALSE, NoResult, <<>>)
    /\ InitLoop

InitSubmit ==
    /\ st_alpha_id = <<>>
    /\ st_alpha_type = "str"
    /\ st_pc = "idle"
    /\ attempts = 0
    /\ count = 0
    /\ polled = FALSE
    /\ st_emitted = <<>>
    /\ st_response = NoResponse
    /\ signal_queue = <<>>

\* ---- the orchestrator ----
Init == InitOrch /\ InitStore /\ InitSubmit

Next ==
    \/ Setup \/ ExceptCheck \/ EmitError \/ LoopCheck \/ GetRunning \/ FillCheck
    \/ Submit \/ Poll \/ Retire \/ Exit \/ SayDone \/ stop

Spec == Init /\ [][Next]_vars

\* the thread keeps being scheduled until run() returns
FairSpec == Spec /\ WF_vars(RunStep)

\* ---- the result store ----
InitS == InitOrchIdle /\ InitStore /\ InitSubmit

NextS == HandleBacktestFinished \/ MarkAsSubmitted

SpecStore == InitS /\ [][NextS]_vars

\* ---- the submission workflow ----
PassingChecks == <<Check("LOW_SHARPE", "PASS", 1), Check("LOW_FITNESS", "PASS", 2)>>

Passing(a, f) == [id |-> a, dateCreated |-> "t1", code |-> f, checks |-> PassingChecks]

RECURSIVE StoreAfter(_)
StoreAfter(results) ==
    IF results = <<>> THEN EmptyFile
    ELSE persist(StoreAfter(SubSeq(results, 1, Len(results) - 1)), results[Len(results)])

\* the stores the workflow starts on: written by handle_backtest_finished
SubmitStores ==
    { StoreAfter(q) :
        q \in { <<>>,
                <<Passing(<<"a","1">>, "f1")>>,
                <<Passing(<<"1","7">>, "f1")>>,
                <<Passing(<<"a","1">>, "f1"), Passing(<<"1","7">>, "f1"),
                  Passing(<<"a","1">>, "f2")>> } }

InitB ==
    /\ InitOrchIdle
    /\ results_file \in SubmitStores
    /\ gui_log = GuiLog("none", FALSE, NoResult, <<>>)
    /\ InitLoop
    /\ InitSubmit

NextB == submit_single \/ Stage1Attempt \/ Stage1Exhausted \/ Stage2Poll \/ on_submit_finished

SpecSubmit == InitB /\ [][NextB]_vars

\* a started SubmitThread runs on: QThread.start() runs run() to its end
SubmitThreadStep == Stage1Attempt \/ Stage1Exhausted \/ Stage2Poll

FairSubmit == SpecSubmit /\ WF_vars(SubmitThreadStep)

\* ---- batch submission ----
\* the stores the batch starts on: written by handle_backtest_finished, some
\* of them then marked by mark_as_submitted after a single submission
BatchStores ==
    SubmitStores \cup
    { mark(StoreAfter(<<Passing(<<"a","1">>, "f1"), Passing(<<"1","7">>, "f1"),
                        Passing(<<"a","1">>, "f2")>>), <<"1","7">>),
      mark(StoreAfter(<<Passing(<<"a","1">>, "f1"), Passing(<<"a","1">>, "f2")>>),
           <<"1","7">>),
      mark(StoreAfter(<<Passing(<<"1","7">>, "f1")>>), <<"a","1">>),
      mark(StoreAfter(<<Passing(<<"a","1">>, "f1")>>), <<"a","1">>) }

InitBatch ==
    /\ InitOrchIdle
    /\ results_file \in BatchStores
    /\ gui_log = GuiLog("none", FALSE, NoResult, <<>>)
    /\ InitLoop
    /\ InitSubmit

NextBatch ==
    \/ submit_batch \/ Stage1Attempt \/ Stage1Exhausted \/ Stage2Poll
    \/ on_batch_submit_finished

SpecBatch == InitBatch /\ [][NextBatch]_vars

\* ---- calculate_overall_progress on its own ----
\* the fractions of the progress map: exact binary fractions, whose sum is
\* exact in any order
ProgressFractions == {0, 25, 50, 100}

ActiveEntry == [alpha_expression |-> <<"r">>, field_id |-> <<"v","e","c","t","o">>]

\* a BacktestThread on which calculate_overall_progress(current_idx,
\* total_fields) is called: any argument, any active set, any progress map
InitP ==
    /\ field_ids \in { [i \in 1..n |-> <<"v","e","c","t","o">>] : n \in 0..MaxTotal }
    /\ alpha_template \in Templates
    /\ max_concurrent = 3
    /\ is_running = TRUE
    /\ current_idx \in 0..MaxTotal
    /\ \E S \in SUBSET (0..(MaxTotal - 1)) :
          /\ active_requests = [i \in S |-> ActiveEntry]
          /\ alpha_progress \in [S -> ProgressFractions]
    /\ running_count = 0
    /\ active_at_query = 0
    /\ posts_in_cycle = 0
    /\ last_overall = 0
    /\ fraction_fell = FALSE
    /\ poll_queue = <<>>
    /\ completed_requests = <<>>
    /\ pc = "calc"
    /\ emitted = <<>>
    /\ answered = NoAnswer
    /\ InitStore
    /\ InitSubmit

\* the call: what it returns, as line 261 emits it, or what it raises
CalculateOverallProgress ==
    /\ pc = "calc"
    /\ LET out == calculate_overall_progress(current_idx, total_fields, Active, alpha_progress)
       IN  emitted' = IF out.raised = ""
                      THEN <<[sig |-> "progress_update", kind |-> "overall", idx |-> out.value]>>
                      ELSE <<[sig |-> "raise", kind |-> out.raised, idx |-> 0]>>
    /\ pc' = "done"
    /\ UNCHANGED <<field_ids, alpha_template, max_concurrent, is_running, current_idx,
                   active_requests, alpha_progress, running_count, active_at_query,
                   posts_in_cycle, last_overall, fraction_fell, poll_queue,
                   completed_requests, answered>>
    /\ UNCHANGED <<store_vars, submit_vars>>

\* the floats a poll payload can hold as 'progress': the service is not
\* bound to the range of a fraction
ReportedFractions == ProgressFractions \cup {150}

\* lines 223-226 for one active job: the float of the payload is stored
StoreReported ==
    /\ pc = "calc"
    /\ answered = NoAnswer
    /\ \E idx \in Active, v \in ReportedFractions :
          /\ alpha_progress' = update_progress(alpha_progress, idx, v)
          /\ emitted' = <<Sig("progress_signal", "progress", idx)>>
          /\ answered' = Answer("poll", idx, "none",
                                [NoPoll EXCEPT !.kind = "ok", !.status = "RUNNING",
                                               !.progress = [isfloat |-> TRUE, val |-> v]])
    /\ UNCHANGED <<field_ids, alpha_template, max_concurrent, is_running, current_idx,
                   active_requests, running_count, active_at_query, posts_in_cycle,
                   last_overall, fraction_fell, poll_queue, completed_requests, pc>>
    /\ UNCHANGED <<store_vars, submit_vars>>

NextP == StoreReported \/ CalculateOverallProgress

SpecProgress == InitP /\ [][NextP]_vars

(***************************************************************************)
(* The substitution of lines 200-205 on its own: any template made of a    *)
(* few pieces, any identifier.                                             *)
(***************************************************************************)
OtherToken == <<"{","x","}">>

\* what template_data['alpha_expression'] is put together from: the token,
\* another placeholder, a token that is never closed, single braces and text
TemplatePieces == { DataToken, OtherToken, <<"{","d","a","t","a">>, <<"{">>, <<"}">>, <<"+">> }

RECURSIVE Flatten(_)
Flatten(pieces) ==
    IF pieces = <<>> THEN <<>> ELSE Head(pieces) \o Flatten(Tail(pieces))

SubstTemplates ==
    { Flatten(ps) : ps \in UNION { [1..n -> TemplatePieces] : n \in 0..MaxPieces } }

\* the identifiers of the list: names, and names that hold braces themselves
SubstIdentifiers == FieldPool \cup { <<"x">>, OtherToken, DataToken }

\* a BacktestThread about to build the expression of its first identifier
InitE ==
    /\ field_ids \in { <<x>> : x \in SubstIdentifiers }
    /\ alpha_template \in SubstTemplates
    /\ max_concurrent = 3
    /\ is_running = TRUE
    /\ current_idx = 0
    /\ active_requests = <<>>
    /\ alpha_progress = <<>>
    /\ running_count = 0
    /\ active_at_query = 0
    /\ posts_in_cycle = 0
    /\ last_overall = 0
    /\ fraction_fell = FALSE
    /\ poll_queue = <<>>
    /\ completed_requests = <<>>
    /\ pc = "build"
    /\ emitted = <<>>
    /\ answered = NoAnswer
    /\ InitStore
    /\ InitSubmit

\* lines 200-211: the expression is built and posted (line 209); the service
\* accepts it and line 211 keeps it
BuildExpression ==
    /\ pc = "build"
    /\ active_requests' =
          [i \in {current_idx} |->
              [alpha_expression |-> Substitute(alpha_template, field_ids[current_idx + 1]),
               field_id |-> field_ids[current_idx + 1]]]
    /\ answered' = Answer("post", current_idx, "location", NoPoll)
    /\ posts_in_cycle' = posts_in_cycle + 1
    /\ pc' = "done"
    /\ UNCHANGED <<field_ids, alpha_template, max_concurrent, is_running, current_idx,
                   alpha_progress, running_count, active_at_query, last_overall,
                   fraction_fell,
                   poll_queue, completed_requests, emitted>>
    /\ UNCHANGED <<store_vars, submit_vars>>

NextE == BuildExpression

SpecSubst == InitE /\ [][NextE]_vars

(***************************************************************************)
(* The event loop of the GUI thread.  handle_backtest_finished is a slot   *)
(* of BacktestWindow and on_submit_finished / on_batch_submit_finished are *)
(* slots of BatchSubmitWindow; the finished_signal of each worker QThread  *)
(* is connected to them with the default connection type, so an emission   *)
(* from a worker thread is posted to the GUI thread, which runs the slots  *)
(* one at a time.  A slot is two steps here, its read of the file and its  *)
(* write of it, so that what happens between them is checked.              *)
(***************************************************************************)
MaxEvents == 3      \* most finished_signal emissions of one behaviour

SlotCall(slot, result, alpha_id, success) ==
    [slot |-> slot, result |-> result, alpha_id |-> alpha_id, success |-> success]

FailingChecks == <<Check("LOW_SHARPE", "PASS", 1), Check("LOW_FITNESS", "FAIL", 2)>>

LoopResults ==
    { r \in Results :
        r.checks = PassingChecks \/ (r.checks = FailingChecks /\ r.code = "f1") }

\* a connection that runs the slot in the emitting thread, whatever else runs
DirectConnection(running) == TRUE

\* the connections of start_backtest, submit_single and submit_next_batch:
\* the GUI thread takes the next posted call only when no slot is running
QueuedConnection(running) == running = <<>>

\* the slot reads the file: lines 570-579, resp. line 313
SlotReads(call) ==
    call.slot = "handle_backtest_finished" \/ call.success

\* the slot writes the file: line 593 under all_passed, resp. line 322 when
\* read_csv found the file
SlotWrites(call, snapshot) ==
    IF call.slot = "handle_backtest_finished"
    THEN all_passed(call.result.checks)
    ELSE snapshot.exists

\* what the slot makes of the file it read
SlotOutcome(call, snapshot) ==
    IF call.slot = "handle_backtest_finished"
    THEN persist(snapshot, call.result)
    ELSE IF call.success THEN mark(snapshot, call.alpha_id) ELSE snapshot

\* BacktestThread.run line 244: self.finished_signal.emit(result)
EmitBacktestFinished ==
    /\ posted < MaxEvents
    /\ \E result \in LoopResults :
          event_queue' = Append(event_queue,
                                SlotCall("handle_backtest_finished", result, <<>>, TRUE))
    /\ posted' = posted + 1
    /\ UNCHANGED <<results_file, gui_log, gui_running, serial_file, batch_vars,
                   orch_vars, submit_vars>>

\* SubmitThread.run lines 41, 45, 65, 69: self.finished_signal.emit(alpha_id, success)
EmitSubmitFinished ==
    /\ posted < MaxEvents
    /\ \E alpha_id \in AlphaIds, success \in BOOLEAN :
          event_queue' = Append(event_queue,
                                SlotCall("on_submit_finished", NoResult, alpha_id, success))
    /\ posted' = posted + 1
    /\ UNCHANGED <<results_file, gui_log, gui_running, serial_file, batch_vars,
                   orch_vars, submit_vars>>

\* the GUI thread delivers a posted call; the slot runs up to its read
SlotBegin ==
    /\ event_queue # <<>>
    /\ QueuedConnection(gui_running)
    /\ LET call == Head(event_queue)
       IN  gui_running' = IF SlotReads(call)
                          THEN Append(gui_running, [call |-> call, snapshot |-> results_file])
                          ELSE gui_running
    /\ event_queue' = Tail(event_queue)
    /\ UNCHANGED <<results_file, gui_log, serial_file, posted, batch_vars,
                   orch_vars, submit_vars>>

\* a running slot writes what it made of its snapshot and returns
SlotEnd ==
    /\ \E k \in 1..Len(gui_running) :
          LET h == gui_running[k]
          IN  /\ results_file' = IF SlotWrites(h.call, h.snapshot)
                                 THEN SlotOutcome(h.call, h.snapshot)
                                 ELSE results_file
              /\ gui_log' = IF h.call.slot = "handle_backtest_finished"
                            THEN GuiLog("persist", all_passed(h.call.result.checks),
                                        h.call.result, <<>>)
                            ELSE GuiLog("mark", h.snapshot.exists, NoResult, h.call.alpha_id)
              /\ serial_file' = SlotOutcome(h.call, serial_file)
              /\ gui_running' = SelectIdx(gui_running, (1..Len(gui_running)) \ {k})
    /\ UNCHANGED <<event_queue, posted, batch_vars, orch_vars, submit_vars>>

InitG == InitOrchIdle /\ InitStore /\ InitSubmit

NextG == EmitBacktestFinished \/ EmitSubmitFinished \/ SlotBegin \/ SlotEnd

SpecGui == InitG /\ [][NextG]_vars

(***************************************************************************)
(* Claims about the orchestrator (Spec, FairSpec).                         *)
(***************************************************************************)
HasSig(kind) == \E k \in 1..Len(emitted) : emitted[k].kind = kind
SigAbout(kind, idx) ==
    \E k \in 1..Len(emitted) : emitted[k].kind = kind /\ emitted[k].idx = idx

\* a step of run(), as opposed to a call of stop() or a stuttering step
ThreadStep == is_running' = is_running /\ orch_vars' # orch_vars

\* the jobs brought to the active set since running_count was read
NewActive == Cardinality(Active) - active_at_query
InFillPhase == pc \in {"fill", "submit"}
AtMostZero(n) == IF n < 0 THEN 0 ELSE n
Larger(a, b) == IF a > b THEN a ELSE b

\* C1: in every reachable state of a run, for every max_concurrent in 1..5 and
\* every sequence of external counts and submit and poll outcomes, the active
\* set holds at most max_concurrent jobs.
C1_ActiveAtMostMax == Cardinality(Active) <= max_concurrent

\* a run in which the active set is full, with more than one job
C1_Witness == max_concurrent = 2 /\ Cardinality(Active) = 2 /\ pc = "poll"

\* C2 as stated: with E the external count read at the start of the cycle and
\* L the local active count then, the slots are max_concurrent - max(E, L);
\* with no slot the cycle submits nothing, and with slots the cycle brings up
\* to exactly that many jobs to the active set: the filling stops short of it
\* only when the identifiers run out (or the run is cancelled).
C2_SlotsByLarger ==
    LET slots == max_concurrent - Larger(running_count, active_at_query)
    IN  /\ (InFillPhase \/ pc = "poll") => NewActive <= AtMostZero(slots)
        /\ pc = "submit" => NewActive < slots
        /\ (pc = "poll" /\ is_running /\ current_idx < total_fields) => NewActive >= slots

\* C2 as amended: the slots are max_concurrent - (E + L).  The cycle waits
\* exactly when E >= max_concurrent; otherwise a submission is attempted only
\* while fewer jobs than slots were brought to the active set, at most that
\* many are brought, and the filling stops short of it only when the
\* identifiers run out (or the run is cancelled).
C2_SlotsBySum ==
    LET slots == max_concurrent - (running_count + active_at_query)
    IN  /\ HasSig("wait") => (pc = "loop" /\ running_count >= max_concurrent)
        /\ InFillPhase => running_count < max_concurrent
        /\ (InFillPhase \/ pc = "poll") => NewActive <= AtMostZero(slots)
        /\ pc = "submit" => NewActive < slots
        /\ (pc = "poll" /\ is_running /\ current_idx < total_fields) => NewActive >= slots

\* a cycle that filled its one slot while jobs were in flight both outside
\* and in the active set
C2_Witness ==
    /\ pc = "poll" /\ running_count > 0 /\ active_at_query > 0
    /\ NewActive > 0
    /\ NewActive = max_concurrent - (running_count + active_at_query)

\* C3 as stated: an identifier whose submit request is answered 429 stays
\* pending: it is not consumed, so it is the next one submitted.
C3_RateLimitedStaysPending ==
    \A k \in 1..Len(emitted) :
        emitted[k].kind = "raise_rate_limit" => current_idx <= emitted[k].idx

\* C4 as stated: the loop exits exactly when nothing is pending and nothing is
\* active, or on cancellation; and, absent cancellation, when every poll of an
\* active job eventually returns a terminal status, an error status or a
\* failure and the external count eventually stays below max_concurrent, the
\* run reaches that exit.
PollSettled(i) ==
    i \in Range(completed_requests) \/ SigAbout("poll_failed", i)
C4_ExitsExactlyThenAndTerminates ==
    /\ [][(pc = "loop" /\ pc' # pc) =>
            (pc' = "exit" <=>
               ((current_idx >= total_fields /\ Active = {}) \/ ~is_running))]_vars
    /\ ( ( /\ []is_running
           /\ <>[](running_count < max_concurrent)
           /\ \A i \in 0..(MaxFields - 1) : [](i \in Active => <>PollSettled(i)) )
         => <>(pc = "done") )

\* C5 as stated: once stop() has cleared the flag, run() issues no further
\* submit request.
C5_NoSubmitAfterStop ==
    [][(~is_running /\ pc = "submit") => pc' = "submit"]_vars

\* C5 as amended: once stop() has cleared the flag, every later check of the
\* flag stops what it guards.  run() passes no further identifier to a submit
\* request (only a request whose check of line 191 had passed before is still
\* sent, and the filling loop is checked again right after it); the loop exits
\* at its next check of line 180; no error_signal is started (line 270); and
\* the exit leaves the pending identifiers and the active requests as they
\* are and says nothing about them.
C5_StopsAtNextCheck ==
    [][ /\ (~is_running /\ pc # "submit") => pc' # "submit"
        /\ (pc = "submit" /\ pc' # pc) => pc' = "fill"
        /\ (~is_running /\ pc = "loop" /\ pc' # pc) => pc' = "exit"
        /\ (~is_running /\ pc # "emit_error") => pc' # "emit_error"
        /\ (~is_running /\ pc = "exit" /\ pc' # pc) =>
              /\ pc' = "done"
              /\ emitted' = <<>>
              /\ active_requests' = active_requests
              /\ current_idx' = current_idx ]_vars

\* a cancelled run that has ended with one job active and one identifier pending
C5_Witness ==
    pc = "done" /\ ~is_running /\ Active # {} /\ current_idx < total_fields

\* "vector" in any letter case, character by character
VectorLike(id) ==
    \E i \in 1..(Len(id) - 5) :
        /\ id[i] \in {"v", "V"}     /\ id[i + 1] \in {"e", "E"}
        /\ id[i + 2] \in {"c", "C"} /\ id[i + 3] \in {"t", "T"}
        /\ id[i + 4] \in {"o", "O"} /\ id[i + 5] \in {"r", "R"}

\* C6: an identifier that holds "vector" in any letter case is never handed
\* to the substitution nor submitted; it is consumed as skipped (the index
\* moves on without the identifier entering the active set) and the loop goes
\* on to the next identifier.  No other identifier is skipped.
C6_VectorFieldsSkipped ==
    /\ []( /\ \A i \in Active :
                /\ ~VectorLike(field_ids[i + 1])
                /\ active_requests[i].field_id = field_ids[i + 1]
           /\ pc = "submit" => ~VectorLike(field_ids[current_idx + 1])
           /\ \A k \in 1..Len(emitted) :
                /\ emitted[k].kind \in {"started", "raise_rate_limit", "raise_failed",
                                        "raise_transport"}
                     => ~VectorLike(field_ids[emitted[k].idx + 1])
                /\ emitted[k].kind = "skip"
                     => (VectorLike(field_ids[emitted[k].idx + 1])
                           /\ current_idx = emitted[k].idx + 1 /\ pc = "fill") )
    /\ [][ ( /\ pc = "fill" /\ ThreadStep
             /\ FillCondition(Cardinality(Active), running_count, max_concurrent,
                              current_idx, total_fields, is_running)
             /\ VectorLike(field_ids[current_idx + 1]) )
           => ( /\ current_idx' = current_idx + 1
                /\ active_requests' = active_requests
                /\ alpha_progress' = alpha_progress
                /\ pc' = "fill" ) ]_vars

\* a vector identifier was skipped and the identifier after it is active
C6_Witness ==
    /\ Len(field_ids) = 2 /\ VectorLike(field_ids[1])
    /\ Active = {1} /\ current_idx = 2

(***************************************************************************)
(* Claims about the result store (SpecStore).                              *)
(***************************************************************************)
Rows == results_file.rows

\* the step is handle_backtest_finished(gui_log'.result)
PersistStep == gui_log'.op = "persist"

\* the step is mark_as_submitted(gui_log'.alpha_id)
MarkStep == gui_log'.op = "mark"

ListedNames == {"LOW_SHARPE", "LOW_FITNESS", "LOW_TURNOVER",
                "HIGH_TURNOVER", "LOW_SUB_UNIVERSE_SHARPE"}

ListedAllPass(checks) ==
    \A i \in 1..Len(checks) : checks[i].name \in ListedNames => checks[i].result = "PASS"

\* the row is the record of the result, with the value of each listed check
RecordOf(row, result) ==
    /\ row.alpha_id = result.id
    /\ row.formula = result.code
    /\ row.creation_time = result.dateCreated
    /\ \A i \in 1..Len(result.checks) :
         result.checks[i].name \in ListedNames =>
            row.checks[result.checks[i].name] = result.checks[i].value

\* C7: a completed job's result is written to the store exactly when every
\* check of its list whose name is one of the five listed names has outcome
\* PASS; one listed check that is not PASS leaves the store unchanged, and the
\* record written carries the value of each listed check.
C7_PersistIffListedPass ==
    [][PersistStep =>
         LET result == gui_log'.result
         IN  IF ListedAllPass(result.checks)
             THEN /\ gui_log'.saved
                  /\ results_file'.exists
                  /\ \E k \in 1..Len(results_file'.rows) :
                        RecordOf(results_file'.rows[k], result)
             ELSE /\ ~gui_log'.saved
                  /\ results_file' = results_file]_vars

\* a result with two listed checks, both PASS, and one with an unlisted check
\* that failed have been written, values included
C7_Witness ==
    /\ gui_log.op = "persist" /\ gui_log.saved
    /\ \E i \in 1..Len(gui_log.result.checks) : gui_log.result.checks[i].result # "PASS"
    /\ \E k \in 1..Len(Rows) :
         /\ RecordOf(Rows[k], gui_log.result)
         /\ Rows[k].checks["LOW_SHARPE"] = 2
    /\ \E k \in 1..Len(Rows) :
         /\ Rows[k].checks["LOW_SHARPE"] = 1
         /\ Rows[k].checks["LOW_FITNESS"] = 2

\* C8 as stated: after any sequence of persist and mark operations from an
\* empty store, no two records of the store have the same (alpha_id, formula)
\* key; when a persisted result has the key of an earlier one, one record with
\* that key remains and it is the record of the later write.
C8_OneRecordPerKey ==
    /\ \A i, j \in 1..Len(Rows) :
         (Rows[i].alpha_id = Rows[j].alpha_id /\ Rows[i].formula = Rows[j].formula)
            => i = j
    /\ (gui_log.op = "persist" /\ gui_log.saved) =>
         \A k \in 1..Len(Rows) :
            (Rows[k].alpha_id = gui_log.result.id /\ Rows[k].formula = gui_log.result.code)
               => RecordOf(Rows[k], gui_log.result)

\* the record is the same but for a submitted flag that has been set
SameRecordMarked(before, after) ==
    /\ after.alpha_id = before.alpha_id
    /\ after.formula = before.formula
    /\ after.creation_time = before.creation_time
    /\ after.checks = before.checks
    /\ before.submitted => after.submitted

\* C9: right after mark_as_submitted the store lists every unsubmitted record
\* before every submitted one; within each of the two groups the records are
\* in the relative order they had before; none is added or removed.
C9_StablePartition ==
    [][MarkStep =>
         LET old == results_file.rows
             new == results_file'.rows
         IN  /\ Len(new) = Len(old)
             /\ \A i, j \in 1..Len(new) :
                  (i < j) => ~(new[i].submitted /\ ~new[j].submitted)
             /\ \E pi \in Permutations(1..Len(old)) :
                  /\ \A i \in 1..Len(old) : SameRecordMarked(old[i], new[pi[i]])
                  /\ \A i, j \in 1..Len(old) :
                       (i < j /\ new[pi[i]].submitted = new[pi[j]].submitted)
                          => pi[i] < pi[j]]_vars

\* a mark has moved the two records of one id behind an unsubmitted one
C9_Witness ==
    /\ gui_log.op = "mark" /\ gui_log.alpha_id = <<"a","1">>
    /\ Len(Rows) = 3
    /\ Rows[1].alpha_id = <<"1","7">> /\ ~Rows[1].submitted
    /\ Rows[2].alpha_id = <<"a","1">> /\ Rows[2].submitted /\ Rows[2].formula = "f2"
    /\ Rows[3].alpha_id = <<"a","1">> /\ Rows[3].submitted /\ Rows[3].formula = "f1"

(***************************************************************************)
(* Claims about the submission workflow (SpecSubmit).                      *)
(***************************************************************************)
\* the last step of the thread was a first-round answer 400 or 403
Refused ==
    \E k \in 1..Len(st_emitted) : st_emitted[k] \in {"already_submitted", "rejected"}

\* C10: a 400 or a 403 on any attempt of the first round ends the workflow at
\* once with failure: finished_signal(alpha_id, False) is emitted and run()
\* returns; until the next workflow is started no further POST and no
\* second-round GET is made, and the store is not written.
C10_RefusalEndsWorkflow ==
    /\ [](Refused => (st_pc = "returned" /\ ~polled))
    /\ [][ /\ (Refused' /\ st_pc = "stage1") =>
                signal_queue' = Append(signal_queue,
                                       [alpha_id |-> st_alpha_id, success |-> FALSE])
           /\ (Refused /\ Refused') => (attempts' = attempts /\ polled' = polled)
           /\ (Refused /\ ~Refused') => (st_pc' = "stage1" /\ attempts' = 0)
           /\ Refused => results_file' = results_file ]_vars

\* the second attempt was refused, its signal has been handled, and the record
\* of the alpha is in the store, not marked
C10_Witness ==
    /\ Refused /\ attempts = 2 /\ signal_queue = <<>>
    /\ \E k \in 1..Len(Rows) : Rows[k].alpha_id = st_alpha_id /\ ~Rows[k].submitted

\* the step is one iteration of the second round of SubmitThread.run()
Stage2Step == st_pc = "stage2" /\ (st_pc' # st_pc \/ count' # count)

\* the step is the GUI thread handling the finished signal at the head of the queue
HandlesFinished == signal_queue # <<>> /\ signal_queue' = Tail(signal_queue)

\* the wait hint of a success answer: the number of the Retry-After header,
\* 0 when the header is absent
WaitHint(resp) == IF resp.retry.t = "int" THEN resp.retry.n ELSE TextToInt(resp.retry.s)

\* C11 as stated: in the second round a 200 whose wait hint is zero ends the
\* workflow with finished_signal(alpha_id, True), and handling that signal
\* leaves the record of the alpha marked submitted; a 200 with a wait hint
\* that is not zero makes the thread wait and poll again.
C11_ZeroHintSucceedsAndMarks ==
    [][ /\ (Stage2Step /\ st_response'.kind = "200") =>
              IF WaitHint(st_response') = 0
              THEN /\ st_pc' = "returned"
                   /\ signal_queue' = Append(signal_queue,
                                             [alpha_id |-> st_alpha_id, success |-> TRUE])
              ELSE st_pc' = "stage2" /\ signal_queue' = signal_queue
        /\ (HandlesFinished /\ Head(signal_queue).success) =>
              \A k \in 1..Len(results_file'.rows) :
                 results_file'.rows[k].alpha_id = Head(signal_queue).alpha_id
                    => results_file'.rows[k].submitted ]_vars

(***************************************************************************)
(* Claims about failures of the orchestrator's requests (Spec).            *)
(***************************************************************************)
\* the step is the submission of index current_idx, answered with resp
SubmitStep(resp) == pc = "submit" /\ pc' # pc /\ answered'.post = resp

\* C12: a submit request answered with a status code that is neither 2xx nor
\* 429 fails that job for good: the identifier is consumed and never handed
\* out again, the job does not become active then or later, the failure is
\* reported on progress_signal, and run() goes on with the filling loop
\* instead of ending.
C12_SubmitFailureIsFinal ==
    [][ /\ SubmitStep("http_error") =>
              /\ current_idx' = current_idx + 1
              /\ ~(current_idx \in DOMAIN active_requests')
              /\ emitted' = <<Sig("progress_signal", "raise_failed", current_idx)>>
              /\ pc' = "fill"
        /\ current_idx' >= current_idx
        /\ (DOMAIN active_requests') \subseteq (Active \cup {current_idx})
        /\ (pc \in {"fill", "submit", "poll", "loop", "get_running"})
              => ~(pc' \in {"except", "emit_error"}) ]_vars

\* the first of two identifiers has just failed with such a code and the
\* second is still to be submitted
C12_Witness ==
    /\ answered.op = "post" /\ answered.post = "http_error" /\ answered.idx = 0
    /\ Len(field_ids) = 2 /\ current_idx = 1 /\ Active = {} /\ pc = "fill"
    /\ is_running

\* the step is the poll of the job at the head of the queue, answered with
\* a failure of this kind
PollStep(kind) ==
    /\ pc = "poll" /\ poll_queue # <<>> /\ poll_queue' = Tail(poll_queue)
    /\ answered'.poll.kind = kind

\* the step ends a cycle: lines 255-264
RetireStep == pc = "poll" /\ pc' = "loop"

\* C13 as stated: a poll that fails with a transport error retires the job in
\* that cycle, so that it is not polled again.
C13_TransportErrorRetires ==
    [][PollStep("transport_error") =>
          Head(poll_queue) \in Range(completed_requests')]_vars

\* C13 as amended: a poll that fails with a transport error is reported on
\* progress_signal and leaves the job active: it is not put among the
\* completed requests, its progress entry is kept, the end of the cycle
\* removes only the completed requests, and the next cycle polls every job
\* that is still active, this one included; the other jobs of the cycle are
\* polled as usual.
C13_TransportErrorKeepsActive ==
    [][ /\ PollStep("transport_error") =>
              /\ ~(Head(poll_queue) \in Range(completed_requests'))
              /\ completed_requests' = completed_requests
              /\ emitted' = <<Sig("progress_signal", "poll_failed", Head(poll_queue))>>
              /\ alpha_progress' = alpha_progress
              /\ active_requests' = active_requests
              /\ pc' = "poll"
        /\ RetireStep =>
              DOMAIN active_requests' = Active \ Range(completed_requests)
        /\ (pc # "poll" /\ pc' = "poll") =>
              Range(poll_queue') = DOMAIN active_requests' ]_vars

\* the poll of job 0 has failed with a transport error; job 0 is still
\* active, with its progress entry, and job 1 is next to be polled
C13_Witness ==
    /\ answered.op = "poll" /\ answered.idx = 0
    /\ answered.poll.kind = "transport_error"
    /\ Active = {0, 1} /\ 0 \in DOMAIN alpha_progress
    /\ poll_queue = <<1>> /\ completed_requests = <<>>

\* C14 as stated: a poll answered with a not-found status (404, the body
\* being the service's ordinary error body) retires the job in that cycle:
\* it is among the completed requests after the poll, the end of the cycle
\* removes it from the active set, and it is not polled again.
C14_NotFoundRetires ==
    [][ /\ PollStep("http_error") =>
              Head(poll_queue) \in Range(completed_requests')
        /\ RetireStep =>
              DOMAIN active_requests' = Active \ Range(completed_requests) ]_vars

\* the lines of progress_signal that report what became of a job
OutcomeLines == {"skip", "raise_rate_limit", "raise_failed", "raise_transport",
                 "job_error", "poll_failed"}

\* the step emits such a line about index i
ReportsOutcome(i) ==
    \E k \in 1..Len(emitted') :
        /\ emitted'[k].sig = "progress_signal"
        /\ emitted'[k].kind \in OutcomeLines
        /\ emitted'[k].idx = i

\* the step emits the result of a job on finished_signal
EmitsResult == \E k \in 1..Len(emitted') : emitted'[k].sig = "finished_signal"

\* C15 as stated, for the jobs run() drops: an identifier that is skipped, an
\* identifier whose submission does not make it active (a failure, or a
\* success answer without a poll locator), and a job that is retired without
\* its result being emitted (error status, lost, completed without a result
\* id, completed with a failed result fetch) each have a line on
\* progress_signal reporting that outcome, emitted by the step that drops them.
C15_NoSilentDrop ==
    [][ /\ (pc = "fill" /\ current_idx' = current_idx + 1) =>
              ReportsOutcome(current_idx)
        /\ (pc = "submit" /\ pc' # pc /\ ~(current_idx \in DOMAIN active_requests')) =>
              ReportsOutcome(current_idx)
        /\ (pc = "poll" /\ poll_queue # <<>> /\ poll_queue' = Tail(poll_queue)
              /\ Head(poll_queue) \in Range(completed_requests') /\ ~EmitsResult) =>
              ReportsOutcome(Head(poll_queue)) ]_vars

(***************************************************************************)
(* Claims about the overall progress (SpecProgress, Spec).                 *)
(***************************************************************************)
RECURSIVE SumHundredths(_, _)
SumHundredths(f, S) ==
    IF S = {} THEN 0
    ELSE LET i == CHOOSE x \in S : TRUE IN f[i] + SumHundredths(f, S \ {i})

\* floor(100 * retired / total + (100 / total) * mean fraction of the active
\* jobs), in exact arithmetic; the fractions are in hundredths
ExactOverall(retired, total, active, ap) ==
    IF active = {} THEN (100 * retired) \div total
    ELSE LET n == Cardinality(active)
         IN  (100 * n * retired + SumHundredths(ap, active)) \div (n * total)

\* the value the call has emitted
OverallEmitted(v) == emitted = <<[sig |-> "progress_update", kind |-> "overall", idx |-> v]>>

\* C16 as stated: with retired the number of identifiers pulled that are no
\* longer active (retired + active jobs <= total, total > 0), the overall
\* progress computed is floor(100 * retired / total + (100 / total) * mean
\* fraction of the active jobs), the second term being 0 without active job.
C16_OverallIsFloorOfFormula ==
    (pc = "done" /\ total_fields > 0
       /\ current_idx + Cardinality(Active) <= total_fields)
      => OverallEmitted(ExactOverall(current_idx, total_fields, Active, alpha_progress))

\* C17: in a run with total_fields > 0, when every identifier has been
\* pulled and no job is active at the end of a cycle the overall progress
\* emitted is 100, and the loop that ends without cancellation ends right
\* after such an emission: the last value emitted is 100.
C17_EndsAtHundred ==
    [][ /\ (RetireStep /\ current_idx' >= total_fields /\ active_requests' = EmptyMap)
              => OverallEmitted(100)'
        /\ (pc = "loop" /\ pc' = "exit" /\ is_running /\ total_fields > 0)
              => OverallEmitted(100) ]_vars

\* the last cycle of a run of two identifiers, not cancelled, has emitted 100
C17_Witness ==
    /\ pc = "loop" /\ is_running /\ total_fields = 2 /\ current_idx = 2
    /\ Active = {} /\ OverallEmitted(100)

\* C18 as stated: calculate_overall_progress(current_idx, 0) returns 0 for
\* every current_idx and every content of the active set.
C18_ZeroTotalGivesZero ==
    (pc = "done" /\ total_fields = 0)
      => OverallEmitted(0)

TokenStarts(t) ==
    { i \in 1..(Len(t) - Len(DataToken) + 1) : SubSeq(t, i, i + Len(DataToken) - 1) = DataToken }

\* what position i of the template contributes: the identifier where the
\* token starts, nothing inside the token, the character itself elsewhere
PieceAt(t, x, i) ==
    IF i \in TokenStarts(t) THEN x
    ELSE IF \E k \in 1..(Len(DataToken) - 1) : (i - k) \in TokenStarts(t) THEN <<>>
    ELSE <<t[i]>>

RECURSIVE PiecesUpTo(_, _, _)
PiecesUpTo(t, x, n) ==
    IF n = 0 THEN <<>> ELSE PiecesUpTo(t, x, n - 1) \o PieceAt(t, x, n)

\* C20: for a template that holds the token {data} and any identifier X, the
\* expression built is the template with the token (each place it stands)
\* replaced by X and every other character as it was, other placeholders
\* in braces included.
C20_OnlyDataTokenReplaced ==
    (pc = "done" /\ Contains(alpha_template, DataToken))
        => active_requests[current_idx].alpha_expression =
              PiecesUpTo(alpha_template, field_ids[current_idx + 1], Len(alpha_template))

\* an expression was built from a template holding the token next to another
\* placeholder, which is still there
C20_Witness ==
    /\ pc = "done"
    /\ Contains(alpha_template, DataToken)
    /\ Contains(alpha_template, OtherToken)
    /\ field_ids[1] = <<"v","e","c","t","o">>
    /\ Contains(active_requests[0].alpha_expression, OtherToken)
    /\ Contains(active_requests[0].alpha_expression, field_ids[1])
    /\ ~Contains(active_requests[0].alpha_expression, DataToken)

\* the template holds one placeholder {v} and no other brace
SinglePlaceholder(t) ==
    /\ Cardinality({ i \in 1..Len(t) : t[i] = "{" }) = 1
    /\ Cardinality({ i \in 1..Len(t) : t[i] = "}" }) = 1
    /\ \E i, j \in 1..Len(t) : t[i] = "{" /\ t[j] = "}" /\ j > i + 1

\* the template with its placeholder replaced by x
PlaceholderFilled(t, x) ==
    LET i == CHOOSE k \in 1..Len(t) : t[k] = "{"
        j == CHOOSE k \in 1..Len(t) : t[k] = "}"
    IN  SubSeq(t, 1, i - 1) \o x \o SubSeq(t, j + 1, Len(t))

\* the step reported an empty expression instead of posting it
EmptyExpressionReported ==
    /\ answered.op # "post"
    /\ Active = {}

\* C21: for a template without {data} that holds a single placeholder {v},
\* the expression built is the template with the placeholder replaced by the
\* identifier; and the empty-expression failure is reported exactly when the
\* template is empty, no request being posted for the identifier then.
C21_EmptyTemplateReported ==
    pc = "done" =>
        /\ (~Contains(alpha_template, DataToken) /\ SinglePlaceholder(alpha_template))
              => active_requests[current_idx].alpha_expression =
                    PlaceholderFilled(alpha_template, field_ids[current_idx + 1])
        /\ EmptyExpressionReported <=> alpha_template = <<>>

\* the part of C21 about the placeholder alone
C21_PlaceholderReplaced ==
    (pc = "done" /\ ~Contains(alpha_template, DataToken) /\ SinglePlaceholder(alpha_template))
        => active_requests[current_idx].alpha_expression =
              PlaceholderFilled(alpha_template, field_ids[current_idx + 1])

(***************************************************************************)
(* Further claims about the cycles of the orchestrator (Spec).             *)
(***************************************************************************)
\* the slots available when the cycle read the external count, by the more
\* generous of the two measures: max_concurrent less the larger of the
\* external count and the local active count
SlotsAtCycleStart ==
    Larger(0, max_concurrent - Larger(running_count, active_at_query))

\* C22: within one cycle the orchestrator posts at most as many submit
\* requests as there were slots available at the start of the cycle (so at
\* most max_concurrent), whatever the requests' outcomes.
C22_PostsBoundedBySlots ==
    /\ posts_in_cycle <= SlotsAtCycleStart
    /\ posts_in_cycle <= max_concurrent

\* the part of C22 that the filling loop does bound: the jobs that became
\* active in the cycle
C22_NewActiveBoundedBySlots ==
    pc \in {"fill", "submit", "poll"} => NewActive <= SlotsAtCycleStart

\* C23: when no job's reported fraction ever decreases, the overall progress
\* values emitted at the end of successive cycles of a run never decrease.
C23_OverallNeverFalls ==
    [][~fraction_fell' => last_overall' >= last_overall]_vars

(***************************************************************************)
(* Further claims about the submission workflow (SpecSubmit, FairSubmit).  *)
(***************************************************************************)
\* all five attempts of the first round were answered with a code that is
\* neither 201 nor 400 nor 403: the round is still on after its fifth POST
Exhausted == st_pc = "stage1" /\ attempts = MaxAttempts

\* C24: the first round issues at most 5 submit requests; when all 5 are
\* answered with a code that is neither success nor "already submitted" nor
\* "rejected", the workflow reports no failure, goes on to the second round
\* and issues the status poll.
C24_ExhaustionFallsThrough ==
    /\ [][ /\ attempts' <= MaxAttempts
           /\ Exhausted => /\ st_pc' \in {"stage1", "stage2"}
                           /\ signal_queue' = signal_queue
                           /\ st_emitted' = <<>> ]_vars
    /\ (Exhausted ~> (st_pc # "stage1" /\ attempts = MaxAttempts /\ polled))

\* the fifth attempt was answered with another code and the workflow stands
\* at the second round, about to poll, nothing reported
C24_Witness ==
    /\ attempts = MaxAttempts
    /\ st_response.kind = "other"
    /\ st_pc = "stage2"
    /\ ~polled
    /\ signal_queue = <<>>

(***************************************************************************)
(* Further claims about polling and retirement (Spec).                     *)
(***************************************************************************)
\* the step is the poll of the job at the head of the queue, answered with
\* status code 200 and a payload
PollAnswered ==
    /\ pc = "poll" /\ poll_queue # <<>> /\ poll_queue' = Tail(poll_queue)
    /\ answered'.poll.kind = "ok"

\* the payload reports the end of the job
ReportsError(r) == r.status = "ERROR"
ReportsCompletion(r) == r.status # "ERROR" /\ (r.status = "COMPLETE" \/ r.progress.val = 100)

\* the GET of the result (line 241) raised
FetchRaised(r) == ReportsCompletion(r) /\ r.alpha /\ r.fetch = "transport_error"

\* what C25 says of the steps besides the retirement itself: the end of the
\* cycle removes the completed requests, each active job is polled once a
\* cycle, an index that left the active set does not come back, and a
\* result is emitted only by the poll that completes the job, never on an
\* error status
ResultOncePerJob ==
    /\ RetireStep => DOMAIN active_requests' = Active \ Range(completed_requests)
    /\ (pc # "poll" /\ pc' = "poll") =>
          /\ Range(poll_queue') = DOMAIN active_requests'
          /\ Len(poll_queue') = Cardinality(DOMAIN active_requests')
    /\ ((DOMAIN active_requests') \ Active) \subseteq {current_idx}
    /\ current_idx' >= current_idx
    /\ (current_idx \in (DOMAIN active_requests') \ Active) => current_idx' = current_idx + 1
    /\ \A i \in Active : i < current_idx
    /\ (ThreadStep /\ EmitsResult) =>
          /\ PollAnswered
          /\ ReportsCompletion(answered'.poll)
          /\ ~(Head(poll_queue) \in Range(completed_requests))
          /\ Head(poll_queue) \in Range(completed_requests')

\* C25 as stated: an active job whose poll reports status ERROR, status
\* COMPLETE or progress 1.0 is retired in that same cycle and never polled
\* again; a result is emitted at most once per job, and never for a job whose
\* poll reported status ERROR.
C25_TerminalPollRetires ==
    [][ /\ (PollAnswered /\ (ReportsError(answered'.poll) \/ ReportsCompletion(answered'.poll)))
              => Head(poll_queue) \in Range(completed_requests')
        /\ ResultOncePerJob ]_vars

\* C25 as amended: such a job is retired in that same cycle unless the
\* request for its result raises; then the failure is reported on
\* progress_signal, no result is emitted and the job stays active, to be
\* polled again in the next cycle.  A result is emitted at most once per job,
\* and never for a job whose poll reported status ERROR.
C25_TerminalPollRetiresUnlessFetchRaises ==
    [][ /\ (PollAnswered /\ (ReportsError(answered'.poll) \/ ReportsCompletion(answered'.poll)))
              => IF FetchRaised(answered'.poll)
                 THEN /\ ~(Head(poll_queue) \in Range(completed_requests'))
                      /\ ~EmitsResult
                      /\ \E k \in 1..Len(emitted') :
                            emitted'[k] = Sig("progress_signal", "poll_failed", Head(poll_queue))
                      /\ active_requests' = active_requests
                 ELSE Head(poll_queue) \in Range(completed_requests')
        /\ ResultOncePerJob ]_vars

\* the poll of job 0 has reported progress 1.0 with status RUNNING, its
\* result has been emitted and it is among the completed requests; job 1 is
\* next to be polled
C25_Witness ==
    /\ answered.op = "poll" /\ answered.idx = 0
    /\ answered.poll.status = "RUNNING" /\ answered.poll.progress.val = 100
    /\ \E k \in 1..Len(emitted) : emitted[k] = Sig("finished_signal", "result", 0)
    /\ completed_requests = <<0>>
    /\ poll_queue = <<1>>

\* C26: the progress map holds an entry for exactly the jobs of the active
\* set, at the end of every cycle and in between: the entry is made when the
\* job becomes active and removed when it is retired, so that no retired,
\* skipped or failed job keeps an entry and no active job lacks one.
C26_ProgressEntriesAreActiveJobs ==
    /\ DOMAIN alpha_progress = Active
    /\ \A i \in DOMAIN alpha_progress : i < current_idx

\* a cycle has ended with job 1 active at one half, index 0 being neither
\* active nor in the progress map any more
C26_Witness ==
    /\ pc = "loop"
    /\ \E k \in 1..Len(emitted) : emitted[k].kind = "overall"
    /\ current_idx = 2
    /\ Active = {1}
    /\ alpha_progress = [i \in {1} |-> 50]

(***************************************************************************)
(* Claims about the range of the progress (SpecProgress).                  *)
(***************************************************************************)
\* the arguments are those of a call of line 260: the completed identifiers
\* and the active ones are at most all of them
CallOfRun == current_idx + Cardinality(Active) <= total_fields

FractionsInRange == \A i \in DOMAIN alpha_progress : alpha_progress[i] \in 0..100

OverallInRange ==
    \A k \in 1..Len(emitted) :
        emitted[k].kind = "overall" => emitted[k].idx \in 0..100

\* C27: every fraction stored in the progress map lies in [0, 1] whatever
\* progress the service reports, values outside being clamped, so that the
\* overall progress emitted lies in 0..100.
C27_FractionsClamped ==
    CallOfRun => (FractionsInRange /\ OverallInRange)

\* what holds without clamping: fractions that are in range give an overall
\* progress in range
C27_InRangeIfReportedInRange ==
    (CallOfRun /\ FractionsInRange) => OverallInRange

(***************************************************************************)
(* Claims about the submitted flag across writes of the store (SpecStore). *)
(***************************************************************************)
\* the store after the step holds a record of the same key, marked submitted
StillMarked(row) ==
    \E k \in 1..Len(results_file'.rows) :
        /\ results_file'.rows[k].alpha_id = row.alpha_id
        /\ results_file'.rows[k].formula = row.formula
        /\ results_file'.rows[k].submitted

\* C28: a record that has been marked submitted stays marked submitted under
\* every later persist and mark operation, the persist of a validated result
\* of the same (alpha_id, formula) key included.
C28_SubmittedStays ==
    [][\A i \in 1..Len(Rows) : Rows[i].submitted => StillMarked(Rows[i])]_vars

\* what holds: mark_as_submitted never takes a mark away, and a persist takes
\* none away from a record of another key
C28_SubmittedStaysButForSameKey ==
    [][\A i \in 1..Len(Rows) :
          (/\ Rows[i].submitted
           /\ ~(/\ PersistStep
                /\ gui_log'.saved
                /\ gui_log'.result.id = Rows[i].alpha_id
                /\ gui_log'.result.code = Rows[i].formula))
             => StillMarked(Rows[i])]_vars

(***************************************************************************)
(* Claims about batch submission (SpecBatch).                              *)
(***************************************************************************)
RunIsOn == st_pc \in {"stage1", "stage2"}

\* the step is the last one of an execution of SubmitThread.run
RunEnds == RunIsOn /\ st_pc' \in {"returned", "crashed"}

EmitsFinishedOnce == Len(signal_queue') = Len(signal_queue) + 1

\* C29: every execution of SubmitThread.run that ends emits finished_signal
\* exactly once, an execution that a transport exception of a submit or poll
\* request ends included, so that a batch never stays on an alpha whose
\* thread has ended: the signal is on its way, or the batch has moved on.
C29_EndedRunEmitsOnce ==
    /\ [][RunEnds => EmitsFinishedOnce]_vars
    /\ [](batch_log.said = "started" /\ ~RunIsOn => signal_queue # <<>>)

\* what holds: a run that ends by a return statement has emitted
\* finished_signal exactly once, in its last step, and a step that does not
\* end the run emits none
C29_ReturnedRunEmitsOnce ==
    [][/\ (RunIsOn /\ st_pc' = "returned") => EmitsFinishedOnce
       /\ (RunIsOn /\ st_pc' \notin {"returned", "crashed"}) => signal_queue' = signal_queue
      ]_vars

\* a store written only by handle_backtest_finished, with a record in it
OnlyPersisted(file) ==
    /\ file.exists
    /\ Len(file.rows) > 0
    /\ \A i \in 1..Len(file.rows) : ~file.rows[i].submitted

SubmitBatchStep == batch_log'.op = "submit_batch" /\ batch_log' # batch_log

\* submit_batch has taken every record of the file and started the first
StartedOnAll ==
    /\ batch_log'.said = "started"
    /\ Len(batch_alphas') = Len(Rows)
    /\ \A i \in 1..Len(Rows) : CellText(batch_alphas'[i]) = Rows[i].alpha_id
    /\ current_batch_index' = 0
    /\ st_pc' = "stage1"
    /\ st_alpha_id' = Rows[1].alpha_id

\* C30: a record whose submitted flag has never been set counts as
\* unsubmitted: on a store that only result persistence has written, no
\* record of it ever marked, submit_batch selects every record and starts
\* submitting the first.
C30_BatchTakesEveryUnmarkedRecord ==
    [][(SubmitBatchStep /\ OnlyPersisted(results_file)) => StartedOnAll]_vars

\* what holds: once some mark_as_submitted has written the file, a file with
\* no record marked is taken whole
C30_BatchTakesAllOnceColumnExists ==
    [][(SubmitBatchStep /\ OnlyPersisted(results_file) /\ results_file.has_submitted)
          => StartedOnAll]_vars
====
